---- MODULE Spec2Model ----
(***************************************************************************)
(* State-machine model of the IPsec / NVMe-TCP test harness scripts:       *)
(*   sa_resource_exhaustion_linux.py  (exhaust, try_add_pair)              *)
(*   firmware_upgrade_session.py      (main, monitor_recovery, ...)        *)
(*   error_edge_cases.py              (scenario_packet_loss_reorder, ...)  *)
(*   IPSecTesting.py                  (do_tests)                           *)
(*   tls_nvme_tcp_tests.py            (scenario_impairment, tc helpers)    *)
(* Each script is a sequential program driving external commands; the      *)
(* outcome of every external command, the kernel's association table and   *)
(* the background fio process are the environment and are chosen           *)
(* nondeterministically.  One specification per script.                    *)
(***************************************************************************)
EXTENDS Integers, Sequences, FiniteSets, TLC

VARIABLES
    \* ---- sa_resource_exhaustion_linux.py ----
    ex_pc,          \* position in exhaust(): "idle" | "loop" | "returned"
    args,           \* the argparse namespace handed to exhaust()
    i,              \* loop variable of exhaust()
    created,        \* exhaust(): pairs created
    err_msg,        \* exhaust(): diagnostic of the failing call, "" if none
    xfrm_states,    \* number of xfrm states added by this run
    xfrm_policies,  \* number of xfrm policies added by this run
    calls,          \* history: number of try_add_pair calls made
    fail_idx,       \* history: index i of the call that raised, -1 if none
    \* ---- firmware_upgrade_session.py ----
    fw_pc,          \* position in main()
    dry_run,        \* args.dry_run
    recovery_timeout, \* args.recovery_timeout (seconds)
    xfrm_table,     \* kernel: SPIs of the live ESP associations, in show order
    proc,           \* the fio Popen handle: "none" (None) | "running" |
                    \*   "exited" | "signalled" (SIGINT sent)
    tcpdump,        \* the capture process: "none" | "running" | "exited" | "killed"
    pre_state,      \* main.pre_state  (text of ip xfrm state show)
    pre_spi,        \* main.pre_spi
    post_state,     \* main.post_state
    post_spi,       \* main.post_spi
    ok,             \* first result of monitor_recovery
    elapsed,        \* time.time() - start inside monitor_recovery (seconds)
    sleep_left,     \* remaining seconds of time.sleep(interval)
    outcome,        \* outcome column of the CSV row written, "" if none
    pre_table,      \* history: kernel table when pre_state was taken
    post_table,     \* history: kernel table when post_state was taken
    ever_true,      \* history: the recovery condition held at some instant
                    \*   from the first poll on, with elapsed < recovery_timeout
    polled_true,    \* history: the recovery condition held at a poll instant
    trigger_raised, \* history: trigger_firmware raised
    fw_log,         \* history: the events of the run, in order
    \* ---- error_edge_cases.py ----
    edge_pc,        \* position in scenario_packet_loss_reorder()
    edge_dry,       \* its dry argument
    tc_root,        \* interface: a root qdisc is configured
    tc_netem,       \* interface: the netem child qdisc 30: exists
    tc_filters,     \* interface: number of u32 filters attached
    edge_result,    \* result column of the row logged, "" if none
    edge_exc,       \* history: what raised inside the try block:
                    \*   "" | "tc" (tc_targeted_netem) | "fio" (fio_randrw)
    \* ---- IPSecTesting.py ----
    dt_pc,          \* position in do_tests()
    mode,           \* loop variable of "for mode in modes"
    idx,            \* loop variable of "for idx, ... in enumerate(ciphers)"
    swan_tool,      \* do_tests.swan_tool: "swanctl" | "ipsec" | "None"
    spi,            \* do_tests.spi
    new_spi,        \* do_tests.new_spi, -1 while the name is unbound
    sas,            \* kernel: the xfrm states
    policies,       \* kernel: the xfrm policies
    qdisc,          \* interface: [root, netem, filters]
    fio_thread,     \* the write-heavy thread: "none" | "running" | "ok" | "failed"
    orphans,        \* write-heavy threads of earlier iterations still running
    file_exists,    \* os.path.exists(test_path)
    result,         \* verdict printed for the iteration: "" | "PASS" | "FAIL"
    raised_in,      \* history: the phase whose exception ended the try block
    fio_failed,     \* history: this iteration's write-heavy fio exited non-zero
    join_waited,    \* clock ticks fio_thread.join(timeout=...) has been blocked
    dt_log,         \* history: the events of the iteration, in order
    dt_flushed,     \* history: ip_xfrm_flush() was called in this iteration
    \* ---- firmware_upgrade_session.py: monitor_recovery on its own ----
    mr_pc,          \* position in monitor_recovery(): "test" | "eval" | "sleep" | "returned"
    mr_timeout,     \* its timeout_s argument (seconds)
    mr_interval,    \* its interval argument (seconds)
    mr_after,       \* poll_fn: the number of evaluations that yield False before it yields True
    mr_now,         \* time.time() - start
    mr_evals,       \* history: number of poll_fn() calls made
    mr_eval_start,  \* history: time.time() - start when the last poll_fn() call began
    mr_lag,         \* history: seconds spent inside poll_fn() and oversleeping
    mr_ret,         \* the pair returned, [ok, elapsed]
    \* ---- the impairment operations of the three scripts, called in any order ----
    tc_script,      \* whose operations are called: "ipsec" | "edge" | "tls"
    tc_dry,         \* the dry argument handed to them (the ipsec script has none)
    tcq,            \* interface: [kind, netem, filters]
    tcq_prev,       \* history: the interface before the last call
    tc_op,          \* history: the last call, [op, fault, raised]
    tc_prev_op,     \* history: the operation of the call before the last
    tc_n,           \* number of calls made
    \* ---- tls_nvme_tcp_tests.py: scenario_impairment ----
    tls_pc,         \* position in scenario_impairment()
    tls_args,       \* args: [impair, fio, dry_run]
    tls_if,         \* interface: [kind, netem, filters]
    tls_exc,        \* the step whose exception is propagating, "" if none
    tls_applied,    \* history: tc_netem_add_root was called
    tls_clears,     \* history: number of tc_netem_clear calls
    \* ---- the batch drivers: error_edge_cases.main and tls_nvme_tcp_tests.main ----
    bd_pc,          \* position in main()
    bd_args,        \* the parsed command line
    bd_ran,         \* scenarios that were entered
    bd_rep,         \* outcome each scenario ended with
    bd_exec,        \* commands handed to subprocess.run
    bd_exc,         \* step whose exception left main(), or ""
    bd_td,          \* scenarios left by the exception of a teardown step
    \* ---- the flush-all operations of the three scripts, called in any order ----
    fl_script,      \* whose operation is called: "ipsec" | "exhaust" | "edge"
    fl_dry,         \* the dry argument handed to it (the ipsec script has none)
    fl_sas,         \* number of associations in the kernel
    fl_pols,        \* number of policies in the kernel
    fl_res,         \* the last call: [exec, raised]
    fl_n,           \* number of calls made
    \* ---- sa_resource_exhaustion_linux.py: the key material of try_add_pair ----
    ky_args,        \* args: [cipher, vary_key, key_template]
    ky_pos,         \* how many of the followed pair indices were handled
    ky_sas,         \* the associations created: [idx, dir, key]
    \* ---- IPSecTesting.py do_tests, checksum validation (lines 368-391) ----
    ck_pc,          \* position in the validation part of the try body
    test_file,      \* content of test_path (0: the file does not exist)
    read_file,      \* content of read_file_path (0: the file does not exist)
    checksum,       \* digest printed for the WRITE-HEAVY file, or NoSum
    read_checksum,  \* digest printed for the READ-HEAVY file, or NoSum
    ck_writer,      \* TRUE while the write-heavy fio thread is still alive
    ck_raised,      \* the statement whose exception left the try body
    \* ---- error_edge_cases.py scenario_rekey_during_io, statement by statement ----
    rk_pc,          \* position in scenario_rekey_during_io
    rk_dry,         \* the dry argument
    rk_spi,         \* the association named by spi_hex
    rk_sas,         \* associations in the kernel
    rk_fio,         \* first workload: "not_started" | "running" | "done" | "failed"
    rk_post,        \* second workload, same values
    rk_at_delete,   \* history: rk_fio when xfrm_delete_spi was called, "" before
    rk_row,         \* outcome written to the CSV, "" if none
    \* ---- performance_resource_handling.py run_with_metrics; the clock counts half seconds ----
    pm_pc,          \* position in run_with_metrics
    pm_dry,         \* the dry argument
    pm_runtime,     \* kwargs["runtime"], NoRuntime if the key is absent
    pm_now,         \* time.time(), in half seconds since the call
    pm_stop_at,     \* stop_at, in half seconds
    pm_last,        \* history: <<start, end>> of the latest cpu_util_percent_during call
    pm_scn,         \* history: start and end of run_callable, -1 before
    \* ---- storage_nvme_tests.py main ----
    nv_pc,          \* position in main()
    nv_args,        \* the parsed command line
    nv_tries,       \* iterations done by the wait loop of nvme_connect_tcp
    nv_dev,         \* dev is set
    connected_nqn,  \* connected_nqn is set
    nv_mounted,     \* the file system is mounted
    nv_connect_ok,  \* history: the nvme connect command returned successfully
    nv_disc,        \* history: nvme disconnect was issued
    nv_umount,      \* history: umount was issued
    nv_exit         \* exit status: "" while running, "0", "2" or "usage"

exVars == <<ex_pc, args, i, created, err_msg, xfrm_states, xfrm_policies,
            calls, fail_idx>>

fwVars == <<fw_pc, dry_run, recovery_timeout, xfrm_table, proc, tcpdump,
            pre_state, pre_spi, post_state, post_spi, ok, elapsed, sleep_left,
            outcome, pre_table, post_table, ever_true, polled_true,
            trigger_raised, fw_log>>

edgeVars == <<edge_pc, edge_dry, tc_root, tc_netem, tc_filters, edge_result,
              edge_exc>>

dtVars == <<dt_pc, mode, idx, swan_tool, spi, new_spi, sas, policies, qdisc,
            fio_thread, orphans, file_exists, result, raised_in, fio_failed,
            join_waited, dt_log, dt_flushed>>

mrVars == <<mr_pc, mr_timeout, mr_interval, mr_after, mr_now, mr_evals,
            mr_eval_start, mr_lag, mr_ret>>

tcVars == <<tc_script, tc_dry, tcq, tcq_prev, tc_op, tc_prev_op, tc_n>>

tlsVars == <<tls_pc, tls_args, tls_if, tls_exc, tls_applied, tls_clears>>

bdVars == <<bd_pc, bd_args, bd_ran, bd_rep, bd_exec, bd_exc, bd_td>>

flVars == <<fl_script, fl_dry, fl_sas, fl_pols, fl_res, fl_n>>

kyVars == <<ky_args, ky_pos, ky_sas>>

ckVars == <<ck_pc, test_file, read_file, checksum, read_checksum, ck_writer, ck_raised>>

rkVars == <<rk_pc, rk_dry, rk_spi, rk_sas, rk_fio, rk_post, rk_at_delete, rk_row>>

pmVars == <<pm_pc, pm_dry, pm_runtime, pm_now, pm_stop_at, pm_last, pm_scn>>

nvVars == <<nv_pc, nv_args, nv_tries, nv_dev, connected_nqn, nv_mounted, nv_connect_ok, nv_disc, nv_umount, nv_exit>>

vars == <<exVars, fwVars, edgeVars, dtVars, mrVars, tcVars, tlsVars, bdVars, flVars, kyVars, ckVars, rkVars, pmVars, nvVars>>

\* the variables of the scripts other than the one an action belongs to
notEx == <<fwVars, edgeVars, dtVars, mrVars, tcVars, tlsVars, bdVars, flVars, kyVars, ckVars, rkVars, pmVars, nvVars>>
notFw == <<exVars, edgeVars, dtVars, mrVars, tcVars, tlsVars, bdVars, flVars, kyVars, ckVars, rkVars, pmVars, nvVars>>
notEdge == <<exVars, fwVars, dtVars, mrVars, tcVars, tlsVars, bdVars, flVars, kyVars, ckVars, rkVars, pmVars, nvVars>>
notDt == <<exVars, fwVars, edgeVars, mrVars, tcVars, tlsVars, bdVars, flVars, kyVars, ckVars, rkVars, pmVars, nvVars>>
notKy == <<exVars, fwVars, edgeVars, dtVars, mrVars, tcVars, tlsVars, bdVars, flVars, ckVars, rkVars, pmVars, nvVars>>
notFl == <<exVars, fwVars, edgeVars, dtVars, mrVars, tcVars, tlsVars, bdVars, kyVars, ckVars, rkVars, pmVars, nvVars>>
notBd == <<exVars, fwVars, edgeVars, dtVars, mrVars, tcVars, tlsVars, flVars, kyVars, ckVars, rkVars, pmVars, nvVars>>
notTls == <<exVars, fwVars, edgeVars, dtVars, mrVars, tcVars, bdVars, flVars, kyVars, ckVars, rkVars, pmVars, nvVars>>
notTc == <<exVars, fwVars, edgeVars, dtVars, mrVars, tlsVars, bdVars, flVars, kyVars, ckVars, rkVars, pmVars, nvVars>>
notMr == <<exVars, fwVars, edgeVars, dtVars, tcVars, tlsVars, bdVars, flVars, kyVars, ckVars, rkVars, pmVars, nvVars>>
notCk == <<exVars, fwVars, edgeVars, dtVars, mrVars, tcVars, tlsVars, bdVars, flVars, kyVars, rkVars, pmVars, nvVars>>
notRk == <<exVars, fwVars, edgeVars, dtVars, mrVars, tcVars, tlsVars, bdVars, flVars, kyVars, ckVars, pmVars, nvVars>>
notPm == <<exVars, fwVars, edgeVars, dtVars, mrVars, tcVars, tlsVars, bdVars, flVars, kyVars, ckVars, rkVars, nvVars>>
notNv == <<exVars, fwVars, edgeVars, dtVars, mrVars, tcVars, tlsVars, bdVars, flVars, kyVars, ckVars, rkVars, pmVars>>

(***************************************************************************)
(* Bounds of the model                                                     *)
(***************************************************************************)
\* largest --max-pairs value explored
MaxPairs == 3
\* largest number of loop iterations followed in one exhaust() run
MaxIter == 5
\* SPIs range over 1..MaxSpi
MaxSpi == 2
\* largest number of associations in the kernel table
MaxSas == 2
\* largest --recovery-timeout explored (seconds)
MaxTimeout == 5
\* largest timeout_s handed to monitor_recovery on its own (seconds)
MaxMonTimeout == 10
\* largest interval handed to monitor_recovery on its own (seconds)
MaxInterval == 2
\* largest number of impairment calls made in a row
MaxOps == 3
\* clock ticks the timeout FIO_RUNTIME + 30 of fio_thread.join is divided into
JoinGrace == 2
\* longest one poll_fn() call takes (seconds)
MaxEvalTime == 1
\* longest time.sleep(interval) oversleeps (seconds)
MaxOversleep == 1
\* most commands of one scenario that exit non-zero
MaxFaults == 2

(***************************************************************************)
(* A script that is not the one being run stays in its idle state.         *)
(***************************************************************************)
ExhaustIdle ==
    /\ ex_pc = "idle"
    /\ args = [max_pairs |-> 0, until_fail |-> FALSE, with_policy |-> FALSE,
               mode |-> "transport", subnets |-> FALSE, dry_run |-> FALSE]
    /\ i = 0 /\ created = 0 /\ err_msg = ""
    /\ xfrm_states = 0 /\ xfrm_policies = 0 /\ calls = 0 /\ fail_idx = -1

FwIdle ==
    /\ fw_pc = "idle"
    /\ dry_run = FALSE /\ recovery_timeout = 0 /\ xfrm_table = <<>>
    /\ proc = "none" /\ tcpdump = "none"
    /\ pre_state = <<>> /\ pre_spi = "" /\ post_state = <<>> /\ post_spi = ""
    /\ ok = FALSE /\ elapsed = 0 /\ sleep_left = 0 /\ outcome = ""
    /\ pre_table = <<>> /\ post_table = <<>>
    /\ ever_true = FALSE /\ polled_true = FALSE /\ trigger_raised = FALSE
    /\ fw_log = <<>>

NoQdisc == [root |-> FALSE, netem |-> FALSE, filters |-> 0]

DtIdle ==
    /\ dt_pc = "idle"
    /\ mode = "tunnel" /\ idx = 0 /\ swan_tool = "None" /\ spi = 0
    /\ new_spi = -1 /\ sas = {} /\ policies = {} /\ qdisc = NoQdisc
    /\ fio_thread = "none" /\ orphans = 0 /\ file_exists = FALSE
    /\ result = "" /\ raised_in = "" /\ fio_failed = FALSE
    /\ join_waited = 0 /\ dt_log = <<>> /\ dt_flushed = FALSE

EdgeIdle ==
    /\ edge_pc = "idle"
    /\ edge_dry = FALSE /\ tc_root = FALSE /\ tc_netem = FALSE /\ tc_filters = 0
    /\ edge_result = "" /\ edge_exc = ""

MrIdle ==
    /\ mr_pc = "idle"
    /\ mr_timeout = 0 /\ mr_interval = 1 /\ mr_after = 0 /\ mr_now = 0
    /\ mr_evals = 0 /\ mr_eval_start = 0 /\ mr_lag = 0
    /\ mr_ret = [ok |-> FALSE, elapsed |-> 0]

TcIdle ==
    /\ tc_script = "none" /\ tc_dry = FALSE
    /\ tcq = [kind |-> "none", netem |-> FALSE, filters |-> 0]
    /\ tcq_prev = [kind |-> "none", netem |-> FALSE, filters |-> 0]
    /\ tc_op = [op |-> "none", fault |-> 0, raised |-> FALSE]
    /\ tc_prev_op = "none" /\ tc_n = 0

TlsIdle ==
    /\ tls_pc = "idle"
    /\ tls_args = [impair |-> FALSE, fio |-> FALSE, dry_run |-> FALSE]
    /\ tls_if = [kind |-> "none", netem |-> FALSE, filters |-> 0]
    /\ tls_exc = "" /\ tls_applied = FALSE /\ tls_clears = 0

BdIdle ==
    /\ bd_pc = "idle"
    /\ bd_args = [script |-> "none"]
    /\ bd_ran = {} /\ bd_rep = {} /\ bd_exec = {} /\ bd_exc = "" /\ bd_td = {}

FlIdle ==
    /\ fl_script = "none" /\ fl_dry = FALSE /\ fl_sas = 0 /\ fl_pols = 0
    /\ fl_res = [exec |-> {}, raised |-> ""] /\ fl_n = 0

KyIdle ==
    /\ ky_args = [cipher |-> "none"] /\ ky_pos = 0 /\ ky_sas = {}

CkIdle ==
    /\ ck_pc = "idle" /\ test_file = 0 /\ read_file = 0
    /\ checksum = [len |-> 0, of |-> 0] /\ read_checksum = [len |-> 0, of |-> 0]
    /\ ck_writer = FALSE /\ ck_raised = ""

RkIdle ==
    /\ rk_pc = "idle" /\ rk_dry = FALSE /\ rk_spi = 0 /\ rk_sas = {}
    /\ rk_fio = "not_started" /\ rk_post = "not_started"
    /\ rk_at_delete = "" /\ rk_row = ""

PmIdle ==
    /\ pm_pc = "idle" /\ pm_dry = FALSE /\ pm_runtime = 0 /\ pm_now = 0
    /\ pm_stop_at = 0 /\ pm_last = <<-1, -1>> /\ pm_scn = [start |-> -1, end |-> -1]

NvIdle ==
    /\ nv_pc = "idle" /\ nv_args = [nvme_tcp |-> FALSE] /\ nv_tries = 0
    /\ nv_dev = FALSE /\ connected_nqn = FALSE /\ nv_mounted = FALSE
    /\ nv_connect_ok = FALSE /\ nv_disc = FALSE /\ nv_umount = FALSE /\ nv_exit = ""

(***************************************************************************)
(* sa_resource_exhaustion_linux.py                                         *)
(***************************************************************************)

\* range(...) stand-in for "unbounded" when --until-fail is given
UnboundedCap == 1000000000

\* the namespaces explored: argparse fields read by exhaust / try_add_pair
ExhaustArgs ==
    [max_pairs : 0..MaxPairs, until_fail : BOOLEAN, with_policy : BOOLEAN,
     mode : {"transport", "tunnel"}, subnets : BOOLEAN, dry_run : BOOLEAN]

\* The commands try_add_pair issues, in order; 0 stands for "no command fails".
\* 1: state add (out)  2: state add (in)  3: policy add (out)  4: policy add (in)
FailPoints(a) ==
    IF a.dry_run THEN {0}
    ELSE IF a.with_policy /\ (a.mode = "transport" \/ a.subnets) THEN 0..4
    ELSE 0..2

\* try_add_pair(idx, args): f is the command that exits non-zero (0: none).
\* Result: whether it returned normally, the states and policies it left in
\* the kernel (none in dry-run), and the text of the exception raised.
TryAddPair(a, f) ==
    LET real == ~a.dry_run
        cfgErr == a.with_policy /\ a.mode = "tunnel" /\ ~a.subnets
        nStates == IF ~real THEN 0
                   ELSE IF f = 1 THEN 0 ELSE IF f = 2 THEN 1 ELSE 2
        nPol == IF ~real \/ ~a.with_policy \/ cfgErr \/ f \in {1, 2} THEN 0
                ELSE IF f = 3 THEN 0 ELSE IF f = 4 THEN 1 ELSE 2
        raised == IF f \in {1, 2} THEN "CalledProcessError:state add"
                  ELSE IF cfgErr THEN "ValueError:subnets required"
                  ELSE IF f \in {3, 4} THEN "CalledProcessError:policy add"
                  ELSE ""
    IN [ok |-> raised = "", states |-> nStates, policies |-> nPol, err |-> raised]

\* mutant: --until-fail makes range() ignore --max-pairs
ExhaustRange_IgnoreCap(a) ==
    IF ~a.until_fail THEN a.max_pairs ELSE UnboundedCap

\* the argument of range() in the for statement of exhaust()
ExhaustRange(a) ==
    IF ~a.until_fail THEN a.max_pairs
    ELSE IF a.max_pairs # 0 THEN a.max_pairs ELSE UnboundedCap

\* mutant: created is incremented before the call, so it counts attempts
CreatedAfter_CountAttempts(c, succeeded) == c + 1

\* created after one pass through the try block: "created += 1" follows the
\* call and is skipped when the call raises
CreatedAfter(c, succeeded) == IF succeeded THEN c + 1 ELSE c

\* mutant: the except clauses do not break, the loop retries with the next index
LoopContinues_Retry(a, succeeded, createdNow) ==
    ~(~a.until_fail /\ createdNow >= a.max_pairs)

\* whether the for loop goes on to its next index after an iteration:
\* the except clauses break, and so does the cap test after the try
LoopContinues(a, succeeded, createdNow) ==
    /\ succeeded
    /\ ~(~a.until_fail /\ createdNow >= a.max_pairs)

\* the subnet test main() makes before it calls exhaust()
MainRejects(a) == a.mode = "tunnel" /\ a.with_policy /\ ~a.subnets

\* exhaust() is entered through main() ("main") or called directly ("loop")
ExhaustInit ==
    /\ ex_pc \in {"main", "loop"}
    /\ args \in ExhaustArgs
    /\ i = 0
    /\ created = 0
    /\ err_msg = ""
    /\ xfrm_states = 0
    /\ xfrm_policies = 0
    /\ calls = 0
    /\ fail_idx = -1

\* main(): sys.exit(...) on tunnel mode with policies and without both
\* subnets, otherwise on to exhaust(args)
ExhaustMain ==
    /\ ex_pc = "main"
    /\ ex_pc' = IF MainRejects(args) THEN "exited" ELSE "loop"
    /\ UNCHANGED <<args, i, created, err_msg, xfrm_states, xfrm_policies,
                   calls, fail_idx, notEx>>

\* one iteration of the for loop of exhaust()
ExhaustIter ==
    /\ ex_pc = "loop"
    /\ i < ExhaustRange(args)
    /\ i < MaxIter
    /\ \E f \in FailPoints(args) :
         LET r == TryAddPair(args, f)
             c == CreatedAfter(created, r.ok)
         IN /\ calls' = calls + 1
            /\ xfrm_states' = xfrm_states + r.states
            /\ xfrm_policies' = xfrm_policies + r.policies
            /\ created' = c
            /\ err_msg' = IF r.ok THEN err_msg ELSE r.err
            /\ fail_idx' = IF r.ok THEN fail_idx ELSE i
            /\ IF LoopContinues(args, r.ok, c)
                 THEN i' = i + 1 /\ ex_pc' = "loop"
                 ELSE i' = i /\ ex_pc' = "returned"
    /\ UNCHANGED <<args, notEx>>

\* range() is exhausted: fall out of the loop and return
ExhaustReturn ==
    /\ ex_pc = "loop"
    /\ i >= ExhaustRange(args)
    /\ ex_pc' = "returned"
    /\ UNCHANGED <<args, i, created, err_msg, xfrm_states, xfrm_policies,
                   calls, fail_idx, notEx>>

ExhaustNext == ExhaustMain \/ ExhaustIter \/ ExhaustReturn

ExhaustStart == ExhaustInit /\ FwIdle /\ EdgeIdle /\ DtIdle /\ MrIdle /\ TcIdle /\ TlsIdle /\ BdIdle /\ FlIdle /\ KyIdle /\ CkIdle /\ RkIdle /\ PmIdle /\ NvIdle

SpecExhaust == ExhaustStart /\ [][ExhaustNext]_vars

(***************************************************************************)
(* Claims about exhaust()                                                  *)
(***************************************************************************)

\* C8: without until_fail and with a cap N > 0, exhaust calls pair creation
\* at most N times, never counts more than N pairs, and returns
\* created = N exactly when no creation call failed.
C8_CapRespected ==
    (~args.until_fail /\ args.max_pairs > 0) =>
        /\ calls <= args.max_pairs
        /\ created <= args.max_pairs
        /\ ex_pc = "returned" => (created = args.max_pairs <=> fail_idx = -1)

\* C8 witness: a capped run of at least two pairs that reached its cap
C8_Witness ==
    /\ ex_pc = "returned" /\ ~args.until_fail /\ args.max_pairs >= 2
    /\ created = args.max_pairs /\ calls = args.max_pairs

\* C9 as stated: with until_fail, exhaust always runs to a first failure and
\* returns the index of the failing pair, whatever max_pairs is.
C9_Original ==
    (ex_pc = "returned" /\ args.until_fail) =>
        (fail_idx # -1 /\ created = fail_idx)

\* C9 amended: with until_fail, exhaust creates pairs until the first failing
\* call or until the cap (max_pairs, or 1,000,000,000 when max_pairs is 0) is
\* reached; it returns the index of the failing pair, which lies below the
\* cap, or the cap when no call failed.
C9_Amended ==
    LET cap == IF args.max_pairs = 0 THEN UnboundedCap ELSE args.max_pairs
    IN (ex_pc = "returned" /\ args.until_fail) =>
          IF fail_idx # -1
            THEN created = fail_idx /\ calls = fail_idx + 1 /\ fail_idx < cap
            ELSE created = cap /\ calls = cap

\* C9 witness: an until_fail run that stopped at its cap without any failure
C9_Witness ==
    /\ ex_pc = "returned" /\ args.until_fail /\ args.max_pairs > 0
    /\ fail_idx = -1 /\ created = args.max_pairs

\* C10 as stated: with max_pairs = 0 no cap applies, so exhaust returns only
\* after a creation call failed, with or without until_fail.
C10_ZeroIsUnbounded ==
    (ex_pc = "returned" /\ args.max_pairs = 0) => fail_idx # -1

\* C11: tunnel mode with policies and without both subnets ends in a
\* configuration error before any association is created: no state was
\* added on any path that ends in that error, through main() or through a
\* direct call of exhaust().
C11_NoStateBeforeConfigError ==
    /\ ex_pc = "exited" => (xfrm_states = 0 /\ calls = 0)
    /\ err_msg = "ValueError:subnets required" => xfrm_states = 0

\* C12: after the first failing creation call exhaust() issues no further
\* call and returns that failure's diagnostic as last error; when no call
\* failed the last error is empty.
C12_FirstFailureHalts ==
    /\ fail_idx # -1 =>
          /\ ex_pc = "returned"
          /\ calls = fail_idx + 1
          /\ err_msg \in {"CalledProcessError:state add",
                          "CalledProcessError:policy add",
                          "ValueError:subnets required"}
    /\ fail_idx = -1 => err_msg = ""

\* C12 witness: a policy add failed after at least one pair was created and
\* exhaust() returned with that diagnostic
C12_Witness ==
    /\ ex_pc = "returned" /\ fail_idx >= 1 /\ calls = fail_idx + 1
    /\ err_msg = "CalledProcessError:policy add"

(***************************************************************************)
(* firmware_upgrade_session.py                                             *)
(***************************************************************************)

\* interval=3.0 handed to monitor_recovery by main()
PollInterval == 3

SPIs == 1..MaxSpi

\* the kernel tables explored: sequences of distinct SPIs
Tables ==
    {t \in UNION {[1..n -> SPIs] : n \in 0..MaxSas} :
        \A a, b \in 1..Len(t) : a # b => t[a] # t[b]}

\* f"0x{spi:x}"
Hex(s) == "0x" \o ToString(s)

\* "ip xfrm state show": the output for one association, split into lines
\* and each line into its whitespace-separated tokens
RenderSa(s) ==
    << <<"src", "10.0.0.1", "dst", "10.0.0.2">>,
       <<"proto", "esp", "spi", Hex(s), "reqid", "1", "mode", "tunnel">>,
       <<"replay-window", "0", "flag", "af-unspec">> >>

RECURSIVE Render(_)
Render(t) == IF t = <<>> THEN <<>> ELSE RenderSa(Head(t)) \o Render(Tail(t))

\* run(cmd, dry=dry) for "ip xfrm state show": "" in dry-run
xfrm_state_snapshot(dry, table) == IF dry THEN <<>> ELSE Render(table)

\* the inner loop of parse_first_spi over the tokens of one line: the token
\* after the first "spi" that has a successor, "None" when there is none
SpiInLine(parts) ==
    LET hits == {k \in 1..(Len(parts) - 1) : parts[k] = "spi"}
    IN IF hits = {} THEN "None"
       ELSE parts[(CHOOSE k \in hits : \A m \in hits : k <= m) + 1]

RECURSIVE parse_first_spi(_)
parse_first_spi(state_text) ==
    IF state_text = <<>> THEN "None"
    ELSE LET r == SpiInLine(Head(state_text))
         IN IF r # "None" THEN r ELSE parse_first_spi(Tail(state_text))

\* parse_first_spi(...) or "unknown"
SpiOrUnknown(state_text) ==
    LET r == parse_first_spi(state_text)
    IN IF r = "None" THEN "unknown" ELSE r

\* "proto esp" in st
HasProtoEsp(st) ==
    \E l \in 1..Len(st) : \E k \in 1..(Len(st[l]) - 1) :
        st[l][k] = "proto" /\ st[l][k + 1] = "esp"

fio_is_running(p) == IF p = "none" THEN FALSE ELSE p = "running"

\* mutant: the condition the comment in recovered() describes ("and")
recovered_And(dry, table, p) ==
    HasProtoEsp(xfrm_state_snapshot(dry, table)) /\ fio_is_running(p)

\* the closure recovered() of main()
recovered(dry, table, p) ==
    HasProtoEsp(xfrm_state_snapshot(dry, table)) \/ fio_is_running(p)

\* mutant: the "unknown" guard of the comparison is missing
Classify_NoUnknownGuard(okv, pre, post) ==
    IF ~okv THEN "FAIL"
    ELSE IF post = pre THEN "PASS-PERSISTENT"
    ELSE "PASS-GRACEFUL"

\* "Determine outcome" in main()
Classify(okv, pre, post) ==
    IF ~okv THEN "FAIL"
    ELSE IF post = pre /\ post # "unknown" THEN "PASS-PERSISTENT"
    ELSE "PASS-GRACEFUL"

\* the outcome column of the row written when trigger_firmware raises
TriggerFailureOutcome == "FAIL"

\* The recovery condition in the world: an ESP association exists or the fio
\* process is alive.  A dry-run executes nothing and sees neither.
WorldRecovered(dry, table, p) == ~dry /\ (table # <<>> \/ p = "running")

\* the event log with e added, unless e is already its last entry
Log(l, e) == IF l # <<>> /\ l[Len(l)] = e THEN l ELSE Append(l, e)

\* mutant: main() goes from the pre-event snapshot straight to the trigger
FwAfterPreSnapshot_NoWorkload == "settle"

\* what follows the pre-event snapshot in main(): the start of the workload
FwAfterPreSnapshot == "fio_start"

FwInit ==
    /\ fw_pc = "start_tcpdump"
    /\ dry_run \in BOOLEAN
    /\ recovery_timeout \in 0..MaxTimeout
    /\ xfrm_table \in Tables
    /\ proc = "none" /\ tcpdump = "none"
    /\ pre_state = <<>> /\ pre_spi = "" /\ post_state = <<>> /\ post_spi = ""
    /\ ok = FALSE /\ elapsed = 0 /\ sleep_left = 0 /\ outcome = ""
    /\ pre_table = <<>> /\ post_table = <<>>
    /\ ever_true = FALSE /\ polled_true = FALSE /\ trigger_raised = FALSE
    /\ fw_log = <<>>

\* start_tcpdump(): run(..., capture=False) is subprocess.run, which waits
\* for the capture process
FwStartTcpdump ==
    /\ fw_pc = "start_tcpdump"
    /\ IF dry_run
         THEN fw_pc' = "pre_snapshot" /\ UNCHANGED tcpdump
         ELSE fw_pc' = "tcpdump_wait" /\ tcpdump' = "running"
    /\ UNCHANGED <<dry_run, recovery_timeout, xfrm_table, proc, pre_state,
                   pre_spi, post_state, post_spi, ok, elapsed, sleep_left,
                   outcome, pre_table, post_table, ever_true, polled_true,
                   trigger_raised, fw_log, notFw>>

\* the capture process ends; check=True raises on a non-zero exit status
FwTcpdumpReturns ==
    /\ fw_pc = "tcpdump_wait"
    /\ tcpdump' = "exited"
    /\ \E rc \in {0, 1} : fw_pc' = IF rc = 0 THEN "pre_snapshot" ELSE "crashed"
    /\ UNCHANGED <<dry_run, recovery_timeout, xfrm_table, proc, pre_state,
                   pre_spi, post_state, post_spi, ok, elapsed, sleep_left,
                   outcome, pre_table, post_table, ever_true, polled_true,
                   trigger_raised, fw_log, notFw>>

\* "Snapshot pre-event SA"
FwPreSnapshot ==
    /\ fw_pc = "pre_snapshot"
    /\ pre_state' = xfrm_state_snapshot(dry_run, xfrm_table)
    /\ pre_spi' = SpiOrUnknown(pre_state')
    /\ pre_table' = xfrm_table
    /\ fw_pc' = FwAfterPreSnapshot
    /\ UNCHANGED <<dry_run, recovery_timeout, xfrm_table, proc, tcpdump,
                   post_state, post_spi, ok, elapsed, sleep_left, outcome,
                   post_table, ever_true, polled_true, trigger_raised, fw_log, notFw>>

\* fio_start_background(): None in dry-run, else a Popen handle
FwFioStart ==
    /\ fw_pc = "fio_start"
    /\ proc' = IF dry_run THEN "none" ELSE "running"
    /\ fw_pc' = "settle"
    /\ fw_log' = Log(Log(fw_log, "workload_start"), "settle")
    /\ UNCHANGED <<dry_run, recovery_timeout, xfrm_table, tcpdump, pre_state,
                   pre_spi, post_state, post_spi, ok, elapsed, sleep_left,
                   outcome, pre_table, post_table, ever_true, polled_true,
                   trigger_raised, notFw>>

\* trigger_firmware() returns: monitor_recovery starts (start = time.time())
FwTriggerOk ==
    /\ fw_pc = "settle"
    /\ fw_pc' = "mon_check"
    /\ elapsed' = 0
    /\ ever_true' = FALSE
    /\ fw_log' = Log(fw_log, "fault")
    /\ UNCHANGED <<dry_run, recovery_timeout, xfrm_table, proc, tcpdump,
                   pre_state, pre_spi, post_state, post_spi, ok, sleep_left,
                   outcome, pre_table, post_table, polled_true,
                   trigger_raised, notFw>>

\* trigger_firmware() raises (empty command line, or the command exits
\* non-zero): the except clause writes its row, stops tcpdump and exits
FwTriggerRaises ==
    /\ fw_pc = "settle"
    /\ trigger_raised' = TRUE
    /\ outcome' = TriggerFailureOutcome
    /\ tcpdump' = IF tcpdump = "running" THEN "killed" ELSE tcpdump
    /\ fw_pc' = "exited"
    /\ fw_log' = Log(Log(fw_log, "fault"), "teardown")
    /\ UNCHANGED <<dry_run, recovery_timeout, xfrm_table, proc, pre_state,
                   pre_spi, post_state, post_spi, ok, elapsed, sleep_left,
                   pre_table, post_table, ever_true, polled_true, notFw>>

\* monitor_recovery: the loop test holds and poll_fn() is evaluated
FwMonitorPoll ==
    /\ fw_pc = "mon_check"
    /\ elapsed < recovery_timeout
    /\ polled_true' = (polled_true \/ WorldRecovered(dry_run, xfrm_table, proc))
    /\ ever_true' = (ever_true \/ WorldRecovered(dry_run, xfrm_table, proc))
    /\ IF recovered(dry_run, xfrm_table, proc)
         THEN ok' = TRUE /\ fw_pc' = "post_snapshot" /\ UNCHANGED sleep_left
         ELSE ok' = ok /\ fw_pc' = "mon_sleep" /\ sleep_left' = PollInterval
    /\ fw_log' = Log(fw_log, "recovery")
    /\ UNCHANGED <<dry_run, recovery_timeout, xfrm_table, proc, tcpdump,
                   pre_state, pre_spi, post_state, post_spi, elapsed, outcome,
                   pre_table, post_table, trigger_raised, notFw>>

\* monitor_recovery: the loop test fails, return (False, timeout_s)
FwMonitorTimeout ==
    /\ fw_pc = "mon_check"
    /\ elapsed >= recovery_timeout
    /\ ok' = FALSE
    /\ fw_pc' = "post_snapshot"
    /\ fw_log' = Log(fw_log, "recovery")
    /\ UNCHANGED <<dry_run, recovery_timeout, xfrm_table, proc, tcpdump,
                   pre_state, pre_spi, post_state, post_spi, elapsed,
                   sleep_left, outcome, pre_table, post_table, ever_true,
                   polled_true, trigger_raised, notFw>>

\* one second of time.sleep(interval) passes
FwTick ==
    /\ fw_pc = "mon_sleep"
    /\ sleep_left > 0
    /\ elapsed' = elapsed + 1
    /\ sleep_left' = sleep_left - 1
    /\ fw_pc' = IF sleep_left' = 0 THEN "mon_check" ELSE "mon_sleep"
    /\ ever_true' = (ever_true \/ (elapsed' < recovery_timeout
                                     /\ WorldRecovered(dry_run, xfrm_table, proc)))
    /\ UNCHANGED <<dry_run, recovery_timeout, xfrm_table, proc, tcpdump,
                   pre_state, pre_spi, post_state, post_spi, ok, outcome,
                   pre_table, post_table, polled_true, trigger_raised, fw_log, notFw>>

\* post_state / post_spi
FwPostSnapshot ==
    /\ fw_pc = "post_snapshot"
    /\ post_state' = xfrm_state_snapshot(dry_run, xfrm_table)
    /\ post_spi' = SpiOrUnknown(post_state')
    /\ post_table' = xfrm_table
    /\ fw_pc' = "classify"
    /\ UNCHANGED <<dry_run, recovery_timeout, xfrm_table, proc, tcpdump,
                   pre_state, pre_spi, ok, elapsed, sleep_left, outcome,
                   pre_table, ever_true, polled_true, trigger_raised, fw_log, notFw>>

\* "Determine outcome" and write_csv
FwClassify ==
    /\ fw_pc = "classify"
    /\ outcome' = Classify(ok, pre_spi, post_spi)
    /\ fw_pc' = "cleanup"
    /\ UNCHANGED <<dry_run, recovery_timeout, xfrm_table, proc, tcpdump,
                   pre_state, pre_spi, post_state, post_spi, ok, elapsed,
                   sleep_left, pre_table, post_table, ever_true, polled_true,
                   trigger_raised, fw_log, notFw>>

\* "Cleanup": stop_tcpdump, SIGINT to fio if it is still running
FwCleanup ==
    /\ fw_pc = "cleanup"
    /\ tcpdump' = IF tcpdump = "running" THEN "killed" ELSE tcpdump
    /\ proc' = IF proc # "none" /\ proc = "running" /\ ~dry_run
                 THEN "signalled" ELSE proc
    /\ fw_pc' = "done"
    /\ fw_log' = Log(fw_log, "teardown")
    /\ UNCHANGED <<dry_run, recovery_timeout, xfrm_table, pre_state, pre_spi,
                   post_state, post_spi, ok, elapsed, sleep_left, outcome,
                   pre_table, post_table, ever_true, polled_true,
                   trigger_raised, notFw>>

FwRunning == fw_pc \notin {"idle", "done", "exited", "crashed"}

\* environment: the fio process ends on its own (runtime over, or I/O error)
FwFioExits ==
    /\ FwRunning
    /\ proc = "running"
    /\ proc' = "exited"
    /\ UNCHANGED <<fw_pc, dry_run, recovery_timeout, xfrm_table, tcpdump,
                   pre_state, pre_spi, post_state, post_spi, ok, elapsed,
                   sleep_left, outcome, pre_table, post_table, ever_true,
                   polled_true, trigger_raised, fw_log, notFw>>

\* environment: the firmware event changes the kernel's association table
\* (associations dropped, re-negotiated, restored) after the trigger ran
FwXfrmChange ==
    /\ fw_pc \in {"mon_check", "mon_sleep", "post_snapshot"}
    /\ ~dry_run
    /\ \E t \in Tables \ {xfrm_table} :
         /\ xfrm_table' = t
         /\ ever_true' = (ever_true \/
                            (/\ fw_pc \in {"mon_check", "mon_sleep"}
                             /\ elapsed < recovery_timeout
                             /\ WorldRecovered(dry_run, t, proc)))
    /\ UNCHANGED <<fw_pc, dry_run, recovery_timeout, proc, tcpdump, pre_state,
                   pre_spi, post_state, post_spi, ok, elapsed, sleep_left,
                   outcome, pre_table, post_table, polled_true,
                   trigger_raised, fw_log, notFw>>

FwNext ==
    \/ FwStartTcpdump \/ FwTcpdumpReturns \/ FwPreSnapshot \/ FwFioStart
    \/ FwTriggerOk \/ FwTriggerRaises \/ FwMonitorPoll \/ FwMonitorTimeout
    \/ FwTick \/ FwPostSnapshot \/ FwClassify \/ FwCleanup
    \/ FwFioExits \/ FwXfrmChange

FwStart == FwInit /\ ExhaustIdle /\ EdgeIdle /\ DtIdle /\ MrIdle /\ TcIdle /\ TlsIdle /\ BdIdle /\ FlIdle /\ KyIdle /\ CkIdle /\ RkIdle /\ PmIdle /\ NvIdle

SpecFirmware == FwStart /\ [][FwNext]_vars

(***************************************************************************)
(* error_edge_cases.py: scenario_packet_loss_reorder                       *)
(***************************************************************************)

\* the checked commands of tc_targeted_netem, in order, and what follows
TcSteps == <<"tc_root", "tc_netem", "tc_filter_dst", "tc_filter_src", "fio">>

\* mutant: the except clause logs the same row as the normal path
ScenarioResult_AlwaysPass(raised) == "PASS"

\* the result column logged by the scenario: the try block ends in the PASS
\* row, the except clause writes the FAIL row
ScenarioResult(raised) == IF raised THEN "FAIL" ELSE "PASS"

EdgeInit ==
    /\ edge_pc = "tc_del"
    /\ edge_dry \in BOOLEAN
    /\ tc_root \in BOOLEAN
    /\ tc_netem \in BOOLEAN
    /\ tc_filters \in 0..2
    /\ (~tc_root => (~tc_netem /\ tc_filters = 0))
    /\ edge_result = "" /\ edge_exc = ""

\* tc_targeted_netem, first command: tc qdisc del dev <iface> root, check=False
EdgeTcDel ==
    /\ edge_pc = "tc_del"
    /\ IF edge_dry THEN UNCHANGED <<tc_root, tc_netem, tc_filters>>
       ELSE tc_root' = FALSE /\ tc_netem' = FALSE /\ tc_filters' = 0
    /\ edge_pc' = TcSteps[1]
    /\ UNCHANGED <<edge_dry, edge_result, edge_exc, notEdge>>

\* tc_targeted_netem, commands 2..5 (check=True): each either takes effect
\* or exits non-zero, which raises CalledProcessError out of the try block
EdgeTcStep(k) ==
    /\ edge_pc = TcSteps[k]
    /\ \/ /\ edge_dry
          /\ UNCHANGED <<tc_root, tc_netem, tc_filters, edge_exc>>
          /\ edge_pc' = TcSteps[k + 1]
       \/ /\ ~edge_dry
          /\ tc_root' = (tc_root \/ k = 1)
          /\ tc_netem' = (tc_netem \/ k = 2)
          /\ tc_filters' = IF k \in {3, 4} THEN tc_filters + 1 ELSE tc_filters
          /\ UNCHANGED edge_exc
          /\ edge_pc' = TcSteps[k + 1]
       \/ /\ ~edge_dry
          /\ UNCHANGED <<tc_root, tc_netem, tc_filters>>
          /\ edge_exc' = "tc"
          /\ edge_pc' = "log"
    /\ UNCHANGED <<edge_dry, edge_result, notEdge>>

\* fio_randrw(...): run(cmd) with check=True
EdgeFio ==
    /\ edge_pc = "fio"
    /\ \/ UNCHANGED edge_exc
       \/ ~edge_dry /\ edge_exc' = "fio"
    /\ edge_pc' = "log"
    /\ UNCHANGED <<edge_dry, tc_root, tc_netem, tc_filters, edge_result, notEdge>>

\* log_row(...) at the end of the try block or in the except clause
EdgeLog ==
    /\ edge_pc = "log"
    /\ edge_result' = ScenarioResult(edge_exc # "")
    /\ edge_pc' = "finally"
    /\ UNCHANGED <<edge_dry, tc_root, tc_netem, tc_filters, edge_exc, notEdge>>

\* finally: tc_clear(iface, dry=dry)
EdgeFinally ==
    /\ edge_pc = "finally"
    /\ IF edge_dry THEN UNCHANGED <<tc_root, tc_netem, tc_filters>>
       ELSE tc_root' = FALSE /\ tc_netem' = FALSE /\ tc_filters' = 0
    /\ edge_pc' = "returned"
    /\ UNCHANGED <<edge_dry, edge_result, edge_exc, notEdge>>

EdgeNext ==
    \/ EdgeTcDel
    \/ \E k \in 1..4 : EdgeTcStep(k)
    \/ EdgeFio \/ EdgeLog \/ EdgeFinally

\* either fault-injection script is run
FaultStart ==
    \/ FwInit /\ EdgeIdle /\ ExhaustIdle /\ DtIdle /\ MrIdle /\ TcIdle /\ TlsIdle /\ BdIdle /\ FlIdle /\ KyIdle /\ CkIdle /\ RkIdle /\ PmIdle /\ NvIdle
    \/ EdgeInit /\ FwIdle /\ ExhaustIdle /\ DtIdle /\ MrIdle /\ TcIdle /\ TlsIdle /\ BdIdle /\ FlIdle /\ KyIdle /\ CkIdle /\ RkIdle /\ PmIdle /\ NvIdle

SpecFault == FaultStart /\ [][FwNext \/ EdgeNext]_vars

(***************************************************************************)
(* Claims about firmware_upgrade_session.main and the fault scenarios      *)
(***************************************************************************)

\* main() went through "Determine outcome"
FwClassified == fw_pc \in {"cleanup", "done"}

\* C2: once the background workload has been started, every exit path of
\* main() stops or joins it: the program never ends with the fio process
\* still running.
C2_WorkloadStopped ==
    fw_pc \in {"done", "exited"} => proc # "running"

\* C3 as stated: the outcome is PASS-PERSISTENT exactly when the post-fault
\* snapshot equals the pre-fault snapshot.
C3_Original ==
    FwClassified => (outcome = "PASS-PERSISTENT" <=> post_state = pre_state)

\* C3 amended: the outcome is PASS-PERSISTENT exactly when a poll found the
\* recovery condition true within the timeout and both snapshots hold at
\* least one association and start with the same SPI.
C3_Amended ==
    FwClassified =>
        (outcome = "PASS-PERSISTENT" <=>
            /\ polled_true
            /\ ~dry_run
            /\ pre_table # <<>> /\ post_table # <<>>
            /\ Head(pre_table) = Head(post_table))

\* C3 witness: PASS-PERSISTENT recorded for snapshots that differ (the post
\* snapshot holds two associations, the first SPI is unchanged)
C3_Witness ==
    /\ FwClassified /\ outcome = "PASS-PERSISTENT"
    /\ Len(post_table) = 2 /\ post_table # pre_table

\* C4 as stated: the outcome is FAIL exactly when the recovery condition
\* never held at any instant within the recovery timeout.
C4_Original ==
    outcome # "" => (outcome = "FAIL" <=> ~ever_true)

\* C4 amended: when the trigger returned, the outcome is FAIL exactly when
\* the recovery condition was false at every poll instant (elapsed 0, 3, ...
\* seconds, while elapsed < recovery timeout).
C4_Amended ==
    FwClassified => (outcome = "FAIL" <=> ~polled_true)

\* C4 witness: FAIL recorded although the condition held between two polls
\* or between the last poll and the timeout
C4_Witness ==
    FwClassified /\ outcome = "FAIL" /\ ever_true /\ ~trigger_raised

\* C5: PASS-GRACEFUL is recorded only when, after the fault, an association
\* exists whose identifier differs from the pre-fault identifier.
C5_GracefulNeedsNewSa ==
    (FwClassified /\ outcome = "PASS-GRACEFUL") =>
        \E k \in 1..Len(post_table) :
            pre_table = <<>> \/ post_table[k] # Head(pre_table)

NumCiphers == 3
\* base_spi = 0x2000
BaseSpi == 8192
\* the offset 0x4000 of transport-mode SPIs
TransportOffset == 16384
\* the mask 0xffff of "reqid=spi & 0xffff"
ReqidModulus == 65536

Modes == <<"tunnel", "transport">>

\* spi = base_spi + idx + (0 if mode == "tunnel" else 0x4000)
SpiFor(m, k) == BaseSpi + k + (IF m = "tunnel" THEN 0 ELSE TransportOffset)

\* what a strongSwan child SA pair looks like in the kernel: one state and
\* one policy per direction, selectors 0.0.0.0/0
IkeSas == {[spi |-> 1, dir |-> d, reqid |-> 1, mode |-> "tunnel", by |-> "ike"]
             : d \in {"out", "in"}}
IkePolicies == {[dir |-> d, reqid |-> 1, mode |-> "tunnel", sel |-> "any"]
                  : d \in {"out", "in"}}

\* ip_xfrm_flush(): state flush and policy flush, check=False
ip_xfrm_flush(k) == [sas |-> {}, policies |-> {}]

\* mutant: the delete leaves the association in place
ip_xfrm_delete_by_spi_Keep(S, n) == S

\* ip_xfrm_delete_by_spi(spi), check=False
ip_xfrm_delete_by_spi(S, n) == {sa \in S : sa.spi # n}

\* clear_tc(iface): tc qdisc del dev <iface> root, check=False
clear_tc(q) == NoQdisc

\* swanctl --terminate --all: the daemon removes the child SAs it installed
\* and their policies
SwanTerminate(k) ==
    [sas |-> {sa \in k.sas : sa.by # "ike"},
     policies |-> {po \in k.policies : po.sel # "any"}]

\* configure_ipxfrm_sa_policy(local, remote, mode, spi, ...): one state add
\* and two policy adds, all check=True.  f is the command an external fault
\* makes fail (0: none); the kernel itself refuses a state whose SPI exists
\* and a policy whose selector and direction exist.
ConfigureXfrm(k, m, n, f) ==
    LET sa == [spi |-> n, dir |-> "out", reqid |-> n % ReqidModulus,
               mode |-> m, by |-> "xfrm"]
        pol(d) == [dir |-> d, reqid |-> n % ReqidModulus, mode |-> m,
                   sel |-> "host"]
        has(P, d) == \E po \in P : po.dir = d /\ po.sel = "host"
        ok1 == f # 1 /\ ~(\E x \in k.sas : x.spi = n /\ x.by = "xfrm")
        s1 == IF ok1 THEN k.sas \cup {sa} ELSE k.sas
        ok2 == ok1 /\ f # 2 /\ ~has(k.policies, "out")
        p2 == IF ok2 THEN k.policies \cup {pol("out")} ELSE k.policies
        ok3 == ok2 /\ f # 3 /\ ~has(p2, "in")
        p3 == IF ok3 THEN p2 \cup {pol("in")} ELSE p2
    IN [ok |-> ok3, sas |-> s1, policies |-> p3]

\* apply_targeted_netem(iface, ...): del root (check=False), then four
\* checked commands; f is the one that fails (0: none)
apply_targeted_netem(q, f) ==
    LET rootOk == f # 1
        netemOk == rootOk /\ f # 2
        nf == IF ~netemOk \/ f = 3 THEN 0 ELSE IF f = 4 THEN 1 ELSE 2
    IN [ok |-> f = 0,
        qdisc |-> [root |-> rootOk, netem |-> netemOk, filters |-> nf]]

Kernel == [sas |-> sas, policies |-> policies]

\* the "finally" clause of one iteration
FinalCleanup(k, tool) ==
    IF tool = "None" THEN ip_xfrm_flush(k) ELSE k

DtInit ==
    /\ dt_pc = "iter_start"
    /\ mode = "tunnel" /\ idx = 0
    /\ swan_tool \in {"swanctl", "ipsec", "None"}
    /\ spi = 0 /\ new_spi = -1
    /\ sas = {} /\ policies = {} /\ qdisc = NoQdisc
    /\ fio_thread = "none" /\ orphans = 0
    /\ file_exists \in BOOLEAN
    /\ result = "" /\ raised_in = "" /\ fio_failed = FALSE
    /\ join_waited = 0 /\ dt_log = <<>> /\ dt_flushed = FALSE

\* top of the loop body: spi, then "cleanup pre-state"
DtIterStart ==
    /\ dt_pc = "iter_start"
    /\ spi' = SpiFor(mode, idx)
    /\ result' = "" /\ raised_in' = "" /\ fio_failed' = FALSE
    /\ join_waited' = 0 /\ dt_log' = <<>>
    /\ LET k == IF swan_tool = "None" THEN ip_xfrm_flush(Kernel) ELSE Kernel
       IN sas' = k.sas /\ policies' = k.policies
    /\ dt_flushed' = (swan_tool = "None")
    /\ dt_pc' = IF swan_tool = "None" THEN "bringup_xfrm" ELSE "bringup_swan"
    /\ UNCHANGED <<mode, idx, swan_tool, new_spi, qdisc, fio_thread, orphans,
                   file_exists, notDt>>

\* swanctl_load_conn(): on success the daemon may have installed the child
\* SAs by the end of the sleep; on failure fall back to ip xfrm
DtSwanLoad ==
    /\ dt_pc = "bringup_swan"
    /\ \/ /\ \E up \in BOOLEAN :
               /\ sas' = IF up THEN sas \cup IkeSas ELSE sas
               /\ policies' = IF up THEN policies \cup IkePolicies ELSE policies
          /\ dt_pc' = "verify"
          /\ UNCHANGED swan_tool
       \/ /\ swan_tool' = "None"
          /\ dt_pc' = "bringup_xfrm"
          /\ UNCHANGED <<sas, policies>>
    /\ UNCHANGED <<mode, idx, spi, new_spi, qdisc, fio_thread, orphans,
                   file_exists, result, raised_in, fio_failed, join_waited, dt_log, dt_flushed, notDt>>

\* "Configuring SA with ip xfrm"
DtConfigureXfrm ==
    /\ dt_pc = "bringup_xfrm"
    /\ \E f \in 0..3 :
         LET r == ConfigureXfrm(Kernel, mode, spi, f)
         IN /\ sas' = r.sas /\ policies' = r.policies
            /\ IF r.ok THEN dt_pc' = "verify" /\ UNCHANGED raised_in
                       ELSE dt_pc' = "except" /\ raised_in' = "bringup"
    /\ UNCHANGED <<mode, idx, swan_tool, spi, new_spi, qdisc, fio_thread,
                   orphans, file_exists, result, fio_failed, join_waited, dt_log, dt_flushed, notDt>>

\* "verify xfrm presence": ip xfrm state show, check=True; then the old test
\* file is removed
DtVerify ==
    /\ dt_pc = "verify"
    /\ \/ dt_pc' = "start_fio" /\ file_exists' = FALSE /\ UNCHANGED raised_in
       \/ dt_pc' = "except" /\ raised_in' = "verify" /\ UNCHANGED file_exists
    /\ UNCHANGED <<mode, idx, swan_tool, spi, new_spi, sas, policies, qdisc,
                   fio_thread, orphans, result, fio_failed, join_waited, dt_log, dt_flushed, notDt>>

\* fio_thread = threading.Thread(target=run_fio, ...); fio_thread.start()
DtStartFio ==
    /\ dt_pc = "start_fio"
    /\ orphans' = IF fio_thread = "running" THEN orphans + 1 ELSE orphans
    /\ fio_thread' = "running"
    /\ dt_pc' = "rekey"
    /\ dt_log' = Log(dt_log, "workload_start")
    /\ UNCHANGED <<mode, idx, swan_tool, spi, new_spi, sas, policies, qdisc,
                   file_exists, result, raised_in, fio_failed, join_waited, dt_flushed, notDt>>

\* "Rekeying: replacing SA mid-I/O"; every failure in it is swallowed
DtRekey ==
    /\ dt_pc = "rekey"
    /\ IF swan_tool # "None"
         THEN /\ sas' = SwanTerminate(Kernel).sas
              /\ policies' = SwanTerminate(Kernel).policies
              /\ UNCHANGED new_spi
         ELSE /\ new_spi' = spi + 1
              /\ \E f \in 0..3 :
                   LET k == [sas |-> ip_xfrm_delete_by_spi(sas, spi),
                             policies |-> policies]
                       r == ConfigureXfrm(k, mode, spi + 1, f)
                   IN sas' = r.sas /\ policies' = r.policies
    /\ dt_pc' = "join"
    /\ dt_log' = Log(Log(dt_log, "settle"), "fault")
    /\ UNCHANGED <<mode, idx, swan_tool, spi, qdisc, fio_thread, orphans,
                   file_exists, result, raised_in, fio_failed, join_waited, dt_flushed, notDt>>

\* fio_thread.join(timeout=FIO_RUNTIME + 30) stays blocked for one more
\* clock tick: the thread is alive and the timeout has not passed
DtJoinWait ==
    /\ dt_pc = "join"
    /\ fio_thread = "running" /\ join_waited < JoinGrace
    /\ join_waited' = join_waited + 1
    /\ UNCHANGED <<dt_pc, mode, idx, swan_tool, spi, new_spi, sas, policies,
                   qdisc, fio_thread, orphans, file_exists, result, raised_in,
                   fio_failed, dt_log, dt_flushed, notDt>>

\* mutant: join() without its timeout
JoinReturns_NoTimeout(thread, waited) == thread # "running"

\* when fio_thread.join(timeout=FIO_RUNTIME + 30) returns: the thread ended,
\* or the timeout passed with the thread still alive
JoinReturns(thread, waited) == thread # "running" \/ waited >= JoinGrace

\* fio_thread.join(...) returns; the is_alive() branch only prints
DtJoin ==
    /\ dt_pc = "join"
    /\ JoinReturns(fio_thread, join_waited)
    /\ dt_pc' = "validate"
    /\ dt_log' = Log(dt_log, "join")
    /\ UNCHANGED <<mode, idx, swan_tool, spi, new_spi, sas, policies, qdisc,
                   fio_thread, orphans, file_exists, result, raised_in,
                   fio_failed, join_waited, dt_flushed, notDt>>

\* "Validate checksum written by fio"
DtValidate ==
    /\ dt_pc = "validate"
    /\ IF file_exists
         THEN dt_pc' = "read_heavy" /\ UNCHANGED raised_in
         ELSE dt_pc' = "except" /\ raised_in' = "validate"
    /\ UNCHANGED <<mode, idx, swan_tool, spi, new_spi, sas, policies, qdisc,
                   fio_thread, orphans, file_exists, result, fio_failed, join_waited, dt_log, dt_flushed, notDt>>

\* read-heavy phase: cp of the test file (check=True)
DtReadHeavy ==
    /\ dt_pc = "read_heavy"
    /\ \/ /\ dt_pc' = "read_fio"
          /\ dt_log' = Log(dt_log, "read_workload")
          /\ UNCHANGED raised_in
       \/ dt_pc' = "except" /\ raised_in' = "read_heavy" /\ UNCHANGED dt_log
    /\ UNCHANGED <<mode, idx, swan_tool, spi, new_spi, sas, policies, qdisc,
                   fio_thread, orphans, file_exists, result, fio_failed,
                   join_waited, dt_flushed, notDt>>

\* read-heavy phase: run_fio(...) in the foreground returns or raises
\* (at "read_fio" the foreground fio is executing), then compute_checksum
DtReadFio ==
    /\ dt_pc = "read_fio"
    /\ \/ dt_pc' = "netem" /\ UNCHANGED raised_in
       \/ dt_pc' = "except" /\ raised_in' = "read_heavy"
    /\ UNCHANGED <<mode, idx, swan_tool, spi, new_spi, sas, policies, qdisc,
                   fio_thread, orphans, file_exists, result, fio_failed,
                   join_waited, dt_log, dt_flushed, notDt>>

\* apply_targeted_netem(...)
DtApplyNetem ==
    /\ dt_pc = "netem"
    /\ \E f \in 0..4 :
         LET r == apply_targeted_netem(qdisc, f)
         IN /\ qdisc' = r.qdisc
            /\ IF r.ok THEN dt_pc' = "impaired" /\ UNCHANGED raised_in
                       ELSE dt_pc' = "except" /\ raised_in' = "netem"
    /\ UNCHANGED <<mode, idx, swan_tool, spi, new_spi, sas, policies,
                   fio_thread, orphans, file_exists, result, fio_failed, join_waited, dt_log, dt_flushed, notDt>>

\* the workload under impairment, its checksum, then clear_tc(iface)
DtImpaired ==
    /\ dt_pc = "impaired"
    /\ \/ dt_pc' = "cleanup_sa" /\ qdisc' = clear_tc(qdisc) /\ UNCHANGED raised_in
       \/ dt_pc' = "except" /\ raised_in' = "impaired" /\ UNCHANGED qdisc
    /\ dt_log' = Log(dt_log, "impaired_workload")
    /\ UNCHANGED <<mode, idx, swan_tool, spi, new_spi, sas, policies,
                   fio_thread, orphans, file_exists, result, fio_failed, join_waited, dt_flushed, notDt>>

\* "Cleanup SA resources after test", then the PASS line
DtCleanupSa ==
    /\ dt_pc = "cleanup_sa"
    /\ IF swan_tool # "None"
         THEN /\ sas' = SwanTerminate(Kernel).sas
              /\ policies' = SwanTerminate(Kernel).policies
         ELSE /\ sas' = ip_xfrm_delete_by_spi(
                           ip_xfrm_delete_by_spi(sas, spi), new_spi)
              /\ UNCHANGED policies
    /\ result' = "PASS"
    /\ dt_pc' = "finally"
    /\ UNCHANGED <<mode, idx, swan_tool, spi, new_spi, qdisc, fio_thread,
                   orphans, file_exists, raised_in, fio_failed, join_waited, dt_log, dt_flushed, notDt>>

\* except Exception as e: the FAIL line
DtExcept ==
    /\ dt_pc = "except"
    /\ result' = "FAIL"
    /\ dt_pc' = "finally"
    /\ UNCHANGED <<mode, idx, swan_tool, spi, new_spi, sas, policies, qdisc,
                   fio_thread, orphans, file_exists, raised_in, fio_failed,
                   join_waited, dt_log, dt_flushed, notDt>>

\* finally: "final cleanup"
DtFinally ==
    /\ dt_pc = "finally"
    /\ sas' = FinalCleanup(Kernel, swan_tool).sas
    /\ policies' = FinalCleanup(Kernel, swan_tool).policies
    /\ qdisc' = clear_tc(qdisc)
    /\ dt_pc' = "iter_done"
    /\ dt_log' = Log(dt_log, "teardown")
    /\ UNCHANGED <<mode, idx, swan_tool, spi, new_spi, fio_thread, orphans,
                   file_exists, result, raised_in, fio_failed, join_waited, dt_flushed, notDt>>

\* the two for statements advance, or do_tests returns
DtNextIter ==
    /\ dt_pc = "iter_done"
    /\ IF idx + 1 < NumCiphers
         THEN idx' = idx + 1 /\ dt_pc' = "iter_start" /\ UNCHANGED mode
         ELSE IF mode = Modes[1]
           THEN idx' = 0 /\ mode' = Modes[2] /\ dt_pc' = "iter_start"
           ELSE dt_pc' = "returned" /\ UNCHANGED <<idx, mode>>
    /\ UNCHANGED <<swan_tool, spi, new_spi, sas, policies, qdisc, fio_thread,
                   orphans, file_exists, result, raised_in, fio_failed, join_waited, dt_log, dt_flushed, notDt>>

DtInTry == dt_pc \in {"rekey", "join", "validate", "read_heavy", "read_fio",
                      "netem", "impaired", "cleanup_sa"}

\* environment: the write-heavy fio lays out its file
DtFioCreatesFile ==
    /\ fio_thread = "running" /\ dt_pc \in {"rekey", "join"}
    /\ ~file_exists
    /\ file_exists' = TRUE
    /\ UNCHANGED <<dt_pc, mode, idx, swan_tool, spi, new_spi, sas, policies,
                   qdisc, fio_thread, orphans, result, raised_in, fio_failed,
                   join_waited, dt_log, dt_flushed, notDt>>

\* environment: the write-heavy fio exits; a non-zero status raises
\* CalledProcessError inside the thread, where it ends
DtFioExits ==
    /\ fio_thread = "running" /\ DtInTry
    /\ \E r \in {"ok", "failed"} :
         /\ fio_thread' = r
         /\ fio_failed' = (r = "failed")
         /\ file_exists' = (file_exists \/ r = "ok")
    /\ UNCHANGED <<dt_pc, mode, idx, swan_tool, spi, new_spi, sas, policies,
                   qdisc, orphans, result, raised_in, join_waited, dt_log, dt_flushed, notDt>>

\* environment: a thread left over from an earlier iteration ends
DtOrphanExits ==
    /\ orphans > 0 /\ dt_pc # "returned"
    /\ orphans' = orphans - 1
    /\ UNCHANGED <<dt_pc, mode, idx, swan_tool, spi, new_spi, sas, policies,
                   qdisc, fio_thread, file_exists, result, raised_in,
                   fio_failed, join_waited, dt_log, dt_flushed, notDt>>

\* the steps of the thread that runs do_tests, and the passing of time
DtMain ==
    \/ DtIterStart \/ DtSwanLoad \/ DtConfigureXfrm \/ DtVerify \/ DtStartFio
    \/ DtRekey \/ DtJoinWait \/ DtJoin \/ DtValidate \/ DtReadHeavy
    \/ DtReadFio \/ DtApplyNetem \/ DtImpaired \/ DtCleanupSa \/ DtExcept
    \/ DtFinally \/ DtNextIter

DtNext ==
    \/ DtIterStart \/ DtSwanLoad \/ DtConfigureXfrm \/ DtVerify \/ DtStartFio
    \/ DtRekey \/ DtJoinWait \/ DtJoin \/ DtValidate \/ DtReadHeavy
    \/ DtReadFio \/ DtApplyNetem
    \/ DtImpaired \/ DtCleanupSa \/ DtExcept \/ DtFinally \/ DtNextIter
    \/ DtFioCreatesFile \/ DtFioExits \/ DtOrphanExits

DtStart == DtInit /\ ExhaustIdle /\ FwIdle /\ EdgeIdle /\ MrIdle /\ TcIdle /\ TlsIdle /\ BdIdle /\ FlIdle /\ KyIdle /\ CkIdle /\ RkIdle /\ PmIdle /\ NvIdle

SpecTests == DtStart /\ [][DtNext]_vars

(***************************************************************************)
(* Claims about do_tests                                                   *)
(***************************************************************************)

\* C1: once the finally block of an iteration has completed, no security
\* association and no policy is live and no qdisc is configured on the
\* interface, with or without strongSwan, on every exit path.
C1_CleanAfterFinally ==
    dt_pc = "iter_done" =>
        (sas = {} /\ policies = {} /\ qdisc = NoQdisc)

\* the I/O workloads executing: the write-heavy fio of this iteration, those
\* left running by earlier iterations, and the foreground read-heavy fio
Workloads ==
    (IF fio_thread = "running" THEN 1 ELSE 0) + orphans
        + (IF dt_pc = "read_fio" THEN 1 ELSE 0)

\* C20: at every instant of do_tests at most one I/O workload is executing,
\* also when the join of the background workload timed out.
C20_AtMostOneWorkload == Workloads <= 1

\* C6: whenever the background write-heavy fio fails, the iteration is
\* reported FAIL and never PASS (and its teardown has run).
C6_FioFailureReported ==
    (dt_pc = "iter_done" /\ fio_failed) => result = "FAIL"

(***************************************************************************)
(* firmware_upgrade_session.py: monitor_recovery(timeout_s, poll_fn,       *)
(* interval) as a function of its arguments.  Time is counted in seconds;  *)
(* a poll_fn() call takes 0..MaxEvalTime of them and time.sleep(interval)  *)
(* sleeps interval..interval + MaxOversleep.                               *)
(***************************************************************************)

\* mutant: the loop test admits elapsed = timeout_s
MrLoopTest_Inclusive(now, timeout) == now <= timeout

\* while time.time() - start < timeout_s
MrLoopTest(now, timeout) == now < timeout

\* poll_fn() at its n-th call: False for the first "after" calls, then True
PollResult(n, after) == n > after

\* return False, timeout_s
MrTimeoutReturn(now, timeout) == [ok |-> FALSE, elapsed |-> timeout]

\* mutant: the loop does not sleep between two polls
MrSleepFor_None(interval, o) == o

\* how long time.sleep(interval) takes when it oversleeps by o
MrSleepFor(interval, o) == interval + o

\* ceil(a / b) for b > 0
CeilDiv(a, b) == (a + b - 1) \div b

MrInit ==
    /\ mr_pc = "test"
    /\ mr_timeout \in 0..MaxMonTimeout
    /\ mr_interval \in 1..MaxInterval
    /\ mr_after \in 0..MaxMonTimeout
    /\ mr_now = 0 /\ mr_evals = 0 /\ mr_eval_start = 0 /\ mr_lag = 0
    /\ mr_ret = [ok |-> FALSE, elapsed |-> 0]

\* the while test; when it fails: return False, timeout_s
MrTest ==
    /\ mr_pc = "test"
    /\ IF MrLoopTest(mr_now, mr_timeout)
         THEN /\ mr_pc' = "eval"
              /\ mr_eval_start' = mr_now
              /\ UNCHANGED mr_ret
         ELSE /\ mr_pc' = "returned"
              /\ mr_ret' = MrTimeoutReturn(mr_now, mr_timeout)
              /\ UNCHANGED mr_eval_start
    /\ UNCHANGED <<mr_timeout, mr_interval, mr_after, mr_now, mr_evals,
                   mr_lag, notMr>>

\* if poll_fn(): return True, time.time() - start
MrEval ==
    /\ mr_pc = "eval"
    /\ \E d \in 0..MaxEvalTime :
         /\ mr_now' = mr_now + d
         /\ mr_lag' = mr_lag + d
         /\ mr_evals' = mr_evals + 1
         /\ IF PollResult(mr_evals + 1, mr_after)
              THEN /\ mr_ret' = [ok |-> TRUE, elapsed |-> mr_now + d]
                   /\ mr_pc' = "returned"
              ELSE /\ mr_pc' = "sleep"
                   /\ UNCHANGED mr_ret
    /\ UNCHANGED <<mr_timeout, mr_interval, mr_after, mr_eval_start, notMr>>

\* time.sleep(interval)
MrSleep ==
    /\ mr_pc = "sleep"
    /\ \E o \in 0..MaxOversleep :
         /\ mr_now' = mr_now + MrSleepFor(mr_interval, o)
         /\ mr_lag' = mr_lag + o
    /\ mr_pc' = "test"
    /\ UNCHANGED <<mr_timeout, mr_interval, mr_after, mr_evals, mr_eval_start,
                   mr_ret, notMr>>

MrNext == MrTest \/ MrEval \/ MrSleep

MrStart == MrInit /\ ExhaustIdle /\ FwIdle /\ EdgeIdle /\ DtIdle /\ TcIdle /\ TlsIdle /\ BdIdle /\ FlIdle /\ KyIdle /\ CkIdle /\ RkIdle /\ PmIdle /\ NvIdle

SpecMonitor == MrStart /\ [][MrNext]_vars

(***************************************************************************)
(* Claims about monitor_recovery                                           *)
(***************************************************************************)

\* C13 as stated: monitor_recovery returns (True, elapsed) with
\* elapsed < timeout at the first evaluation that yields true and evaluates
\* no further; otherwise it returns (False, timeout).
C13_Original ==
    mr_pc = "returned" =>
        IF mr_ret.ok
          THEN mr_ret.elapsed < mr_timeout /\ mr_evals = mr_after + 1
          ELSE mr_ret.elapsed = mr_timeout

\* C13 amended: monitor_recovery returns (True, elapsed) at the first
\* evaluation that yields true, an evaluation that began with
\* elapsed < timeout; elapsed is read after that evaluation, so it exceeds
\* the evaluation's start by the evaluation's duration and may reach or pass
\* timeout; no evaluation follows.  When every evaluation begun before the
\* timeout yields false, it returns (False, timeout).
C13_Amended ==
    /\ mr_pc \in {"eval", "sleep", "returned"} /\ mr_evals > 0
          => mr_eval_start < mr_timeout
    /\ mr_pc = "returned" =>
          IF mr_ret.ok
            THEN /\ mr_evals = mr_after + 1
                 /\ mr_ret.elapsed >= mr_eval_start
                 /\ mr_ret.elapsed <= mr_eval_start + MaxEvalTime
                 /\ mr_ret.elapsed = mr_now
            ELSE /\ mr_ret.elapsed = mr_timeout
                 /\ mr_evals <= mr_after
                 /\ mr_now >= mr_timeout

\* C13 witness: a True return whose elapsed is not below the timeout
C13_Witness ==
    /\ mr_pc = "returned" /\ mr_ret.ok /\ mr_timeout > 0
    /\ mr_ret.elapsed >= mr_timeout /\ mr_evals >= 2

\* the run of C14: 1 s interval, 10 s timeout, poll_fn false at its first
\* four calls
C14_Run == mr_interval = 1 /\ mr_timeout = 10 /\ mr_after = 4

\* C14: with a predicate that becomes true after 4 polls, a 1 s interval and
\* a 10 s timeout, monitor_recovery returns True with elapsed of about 4 s:
\* 4 s plus the time spent inside poll_fn and oversleeping, exactly 4 s when
\* that time is negligible; a return of True is always at the fifth call.
C14_FourPolls ==
    (C14_Run /\ mr_pc = "returned") =>
        /\ mr_ret.ok => (mr_evals = 5 /\ mr_ret.elapsed = 4 + mr_lag)
        /\ mr_lag = 0 => (mr_ret.ok /\ mr_ret.elapsed = 4)

\* C14 witness: the run returned True after exactly 4 seconds
C14_Witness ==
    /\ C14_Run /\ mr_pc = "returned"
    /\ mr_ret = [ok |-> TRUE, elapsed |-> 4] /\ mr_evals = 5

(***************************************************************************)
(* The blocking operations: monitor_recovery and the join of do_tests.     *)
(* The thread that runs them is scheduled and time passes (weak fairness); *)
(* nothing is assumed about when, or whether, the fio process exits.       *)
(***************************************************************************)

BlockingStart ==
    \/ MrInit /\ ExhaustIdle /\ FwIdle /\ EdgeIdle /\ DtIdle /\ TcIdle /\ TlsIdle /\ BdIdle /\ FlIdle /\ KyIdle /\ CkIdle /\ RkIdle /\ PmIdle /\ NvIdle
    \/ DtInit /\ ExhaustIdle /\ FwIdle /\ EdgeIdle /\ MrIdle /\ TcIdle /\ TlsIdle /\ BdIdle /\ FlIdle /\ KyIdle /\ CkIdle /\ RkIdle /\ PmIdle /\ NvIdle

SpecBlocking ==
    /\ BlockingStart
    /\ [][MrNext \/ DtNext]_vars
    /\ WF_vars(MrNext)
    /\ WF_vars(DtMain)

\* C15: the blocking operations never block indefinitely: monitor_recovery
\* returns, after at most ceil(timeout / interval) evaluations of the
\* predicate; the join of the write-heavy thread returns after at most the
\* grace timeout and do_tests goes on to validation, whether or not the
\* workload finished.
C15_BoundedBlocking ==
    /\ [](mr_evals <= CeilDiv(mr_timeout, mr_interval))
    /\ (mr_pc = "test" ~> mr_pc = "returned")
    /\ [](join_waited <= JoinGrace)
    /\ (dt_pc = "join" ~> dt_pc = "validate")

\* C15 witness: the join timed out with the write-heavy fio still running
\* and do_tests is at its validation step
C15_Witness ==
    dt_pc = "validate" /\ fio_thread = "running" /\ join_waited = JoinGrace

(***************************************************************************)
(* The impairment operations: clear_tc / apply_targeted_netem              *)
(* (IPSecTesting.py), tc_clear / tc_targeted_netem (error_edge_cases.py),  *)
(* tc_netem_clear / tc_netem_add_root (tls_nvme_tcp_tests.py).             *)
(* The interface has no configured root qdisc ("none"), the prio root of   *)
(* the scoped profile with its netem child and u32 filters ("prio"), or    *)
(* the netem root of the global profile ("netem").                         *)
(***************************************************************************)

IfNone == [kind |-> "none", netem |-> FALSE, filters |-> 0]

IfStates ==
    {q \in [kind : {"none", "prio", "netem"}, netem : BOOLEAN,
            filters : 0..2] :
        /\ q.kind # "prio" => (~q.netem /\ q.filters = 0)
        /\ ~q.netem => q.filters = 0}

\* the interface of the do_tests model in this representation
IfOfQdisc(q) ==
    [kind |-> IF q.root THEN "prio" ELSE "none", netem |-> q.netem,
     filters |-> q.filters]

\* the profile a complete scoped apply leaves, and the global one
ScopedProfile == [kind |-> "prio", netem |-> TRUE, filters |-> 2]
GlobalProfile == [kind |-> "netem", netem |-> FALSE, filters |-> 0]

\* exit status of "tc qdisc del dev <iface> root": non-zero when no root
\* qdisc is configured
DelRootStatus(q) == IF q.kind = "none" THEN 2 ELSE 0

\* exit status of "tc qdisc add dev <iface> root ...": the kernel refuses a
\* second root qdisc (EEXIST); x tells whether the command fails for a
\* reason outside the interface
AddRootStatus(q, x) == IF x \/ q.kind # "none" THEN 2 ELSE 0

\* subprocess.run(..., check=check): CalledProcessError on a non-zero status
Raises(check, status) == check /\ status # 0

\* mutant: the clear operations run their command with check=True
ClearCheck_True == TRUE

\* the check argument of the command run by clear_tc, tc_clear and
\* tc_netem_clear
ClearCheck == FALSE

\* tc_clear(iface, dry) and tc_netem_clear(iface, dry), and clear_tc(iface)
\* with dry = FALSE: what is raised and the interface left
TcClear(q, dry) ==
    IF dry THEN [raised |-> FALSE, ifs |-> q]
    ELSE [raised |-> Raises(ClearCheck, DelRootStatus(q)), ifs |-> IfNone]

\* tc_targeted_netem(iface, ip, ..., dry) and apply_targeted_netem(iface, ...)
\* with dry = FALSE: del root, then the four checked commands, of which
\* command f fails (0: none)
TcApplyScoped(q, dry, f) ==
    IF dry THEN [raised |-> FALSE, ifs |-> q]
    ELSE LET r == apply_targeted_netem(NoQdisc, f)
         IN [raised |-> ~r.ok, ifs |-> IfOfQdisc(r.qdisc)]

\* tc_netem_add_root(iface, ..., dry): the single checked add command
tc_netem_add_root(q, dry, f) ==
    IF dry THEN [raised |-> FALSE, ifs |-> q]
    ELSE LET st == AddRootStatus(q, f # 0)
         IN [raised |-> Raises(TRUE, st),
             ifs |-> IF st = 0 THEN GlobalProfile ELSE q]

\* the apply operation of a script
TcApply(script, q, dry, f) ==
    IF script = "tls" THEN tc_netem_add_root(q, dry, f)
    ELSE TcApplyScoped(q, dry, f)

\* the external faults an apply of the script can meet
ApplyFaults(script) == IF script = "tls" THEN 0..1 ELSE 0..4

TcInit ==
    /\ tc_script \in {"ipsec", "edge", "tls"}
    /\ tc_dry \in (IF tc_script = "ipsec" THEN {FALSE} ELSE BOOLEAN)
    /\ tcq \in IfStates
    /\ tcq_prev = tcq
    /\ tc_op = [op |-> "none", fault |-> 0, raised |-> FALSE]
    /\ tc_prev_op = "none"
    /\ tc_n = 0

\* one call of the script's clear operation
TcCallClear ==
    /\ tc_script # "none" /\ tc_n < MaxOps
    /\ LET r == TcClear(tcq, tc_dry)
       IN /\ tcq' = r.ifs
          /\ tc_op' = [op |-> "clear", fault |-> 0, raised |-> r.raised]
    /\ tcq_prev' = tcq
    /\ tc_prev_op' = tc_op.op
    /\ tc_n' = tc_n + 1
    /\ UNCHANGED <<tc_script, tc_dry, notTc>>

\* one call of the script's apply operation
TcCallApply ==
    /\ tc_script # "none" /\ tc_n < MaxOps
    /\ \E f \in ApplyFaults(tc_script) :
         LET r == TcApply(tc_script, tcq, tc_dry, f)
         IN /\ tcq' = r.ifs
            /\ tc_op' = [op |-> "apply", fault |-> f, raised |-> r.raised]
    /\ tcq_prev' = tcq
    /\ tc_prev_op' = tc_op.op
    /\ tc_n' = tc_n + 1
    /\ UNCHANGED <<tc_script, tc_dry, notTc>>

TcNext == TcCallClear \/ TcCallApply

TcStart ==
    TcInit /\ ExhaustIdle /\ FwIdle /\ EdgeIdle /\ DtIdle /\ MrIdle /\ TlsIdle /\ BdIdle /\ FlIdle /\ KyIdle /\ CkIdle /\ RkIdle /\ PmIdle /\ NvIdle

SpecTc == TcStart /\ [][TcNext]_vars

\* C16: the clear operation called twice in succession leaves the interface
\* as calling it once does, called with nothing applied it changes nothing,
\* and it never raises, from every interface state.
C16_ClearIdempotent ==
    tc_op.op = "clear" =>
        /\ ~tc_op.raised
        /\ tc_prev_op = "clear" => tcq = tcq_prev
        /\ tcq_prev = IfNone => tcq = IfNone

\* C16 witness: a second clear in a row, after a first one that removed a
\* complete scoped profile
C16_Witness ==
    /\ tc_op.op = "clear" /\ tc_prev_op = "clear" /\ ~tc_dry
    /\ tcq = IfNone /\ tcq_prev = IfNone /\ tc_n = 3

\* C17: every apply operation first clears the interface: an apply that
\* meets no outside fault succeeds and leaves exactly its own profile,
\* whatever was configured before.
C17_ApplyClearsFirst ==
    (tc_op.op = "apply" /\ tc_op.fault = 0 /\ ~tc_dry) =>
        /\ ~tc_op.raised
        /\ tcq = IF tc_script = "tls" THEN GlobalProfile ELSE ScopedProfile

(***************************************************************************)
(* tls_nvme_tcp_tests.py: scenario_impairment                              *)
(***************************************************************************)

TlsInit ==
    /\ tls_pc = "start"
    /\ tls_args \in [impair : BOOLEAN, fio : BOOLEAN, dry_run : BOOLEAN]
    /\ tls_if \in IfStates
    /\ tls_exc = "" /\ tls_applied = FALSE /\ tls_clears = 0

\* if not args.impair: return
TlsSkip ==
    /\ tls_pc = "start" /\ ~tls_args.impair
    /\ tls_pc' = "returned"
    /\ UNCHANGED <<tls_args, tls_if, tls_exc, tls_applied, tls_clears, notTls>>

\* tc_netem_add_root(...), ahead of the try statement: an exception leaves
\* scenario_impairment at once
TlsApply ==
    /\ tls_pc = "start" /\ tls_args.impair
    /\ tls_applied' = TRUE
    /\ \E f \in ApplyFaults("tls") :
         LET r == tc_netem_add_root(tls_if, tls_args.dry_run, f)
         IN /\ tls_if' = r.ifs
            /\ IF r.raised THEN tls_exc' = "apply" /\ tls_pc' = "raised"
                           ELSE tls_exc' = "" /\ tls_pc' = "connect"
    /\ UNCHANGED <<tls_args, tls_clears, notTls>>

\* nvme_connect_tls(...), check=True
TlsConnect ==
    /\ tls_pc = "connect"
    /\ \/ tls_pc' = "find" /\ UNCHANGED tls_exc
       \/ ~tls_args.dry_run /\ tls_exc' = "connect" /\ tls_pc' = "finally"
    /\ UNCHANGED <<tls_args, tls_if, tls_applied, tls_clears, notTls>>

\* find_namespace_device_for_nqn(...): nvme list is run also in dry-run;
\* RuntimeError when no device matches
TlsFind ==
    /\ tls_pc = "find"
    /\ \/ tls_pc' = "fio" /\ UNCHANGED tls_exc
       \/ tls_exc' = "find" /\ tls_pc' = "finally"
    /\ UNCHANGED <<tls_args, tls_if, tls_applied, tls_clears, notTls>>

\* if args.fio: fio_basic_rw(...), check=True
TlsFio ==
    /\ tls_pc = "fio"
    /\ \/ tls_pc' = "finally" /\ UNCHANGED tls_exc
       \/ /\ tls_args.fio /\ ~tls_args.dry_run
          /\ tls_exc' = "fio" /\ tls_pc' = "finally"
    /\ UNCHANGED <<tls_args, tls_if, tls_applied, tls_clears, notTls>>

\* finally: nvme_disconnect (its exception swallowed), tc_netem_clear
TlsFinally ==
    /\ tls_pc = "finally"
    /\ tls_if' = TcClear(tls_if, tls_args.dry_run).ifs
    /\ tls_clears' = tls_clears + 1
    /\ tls_pc' = IF tls_exc = "" THEN "returned" ELSE "raised"
    /\ UNCHANGED <<tls_args, tls_exc, tls_applied, notTls>>

TlsNext ==
    TlsSkip \/ TlsApply \/ TlsConnect \/ TlsFind \/ TlsFio \/ TlsFinally

\* either impairment scenario is run
ImpairStart ==
    \/ EdgeInit /\ ExhaustIdle /\ FwIdle /\ DtIdle /\ MrIdle /\ TcIdle /\ TlsIdle /\ BdIdle /\ FlIdle /\ KyIdle /\ CkIdle /\ RkIdle /\ PmIdle /\ NvIdle
    \/ TlsInit /\ ExhaustIdle /\ FwIdle /\ EdgeIdle /\ DtIdle /\ MrIdle /\ TcIdle /\ BdIdle /\ FlIdle /\ KyIdle /\ CkIdle /\ RkIdle /\ PmIdle /\ NvIdle

SpecImpair == ImpairStart /\ [][EdgeNext \/ TlsNext]_vars

\* C18: once an impairment apply has been attempted, the clear operation is
\* invoked before the scenario returns or propagates its exception: the
\* packet-loss scenario returns with the root qdisc removed, and
\* scenario_impairment never ends after an apply without a clear.
C18_ClearedBeforeExit ==
    /\ (edge_pc = "returned" /\ ~edge_dry) => ~tc_root
    /\ (tls_pc \in {"returned", "raised"} /\ tls_applied) => tls_clears > 0

(***************************************************************************)
(* The order of events in the fault scenarios: the rekey phase of          *)
(* do_tests and firmware_upgrade_session.main                              *)
(***************************************************************************)

OrderingStart ==
    \/ FwInit /\ ExhaustIdle /\ EdgeIdle /\ DtIdle /\ MrIdle /\ TcIdle /\ TlsIdle /\ BdIdle /\ FlIdle /\ KyIdle /\ CkIdle /\ RkIdle /\ PmIdle /\ NvIdle
    \/ DtInit /\ ExhaustIdle /\ FwIdle /\ EdgeIdle /\ MrIdle /\ TcIdle /\ TlsIdle /\ BdIdle /\ FlIdle /\ KyIdle /\ CkIdle /\ RkIdle /\ PmIdle /\ NvIdle

SpecOrdering == OrderingStart /\ [][FwNext \/ DtNext]_vars

\* the place of an event in the order the scenarios are to follow
Rank(e) ==
    CASE e = "workload_start" -> 1
      [] e = "settle" -> 2
      [] e = "fault" -> 3
      [] e \in {"recovery", "join"} -> 4
      [] e = "read_workload" -> 5
      [] e = "impaired_workload" -> 6
      [] e = "teardown" -> 7

Has(l, e) == \E k \in 1..Len(l) : l[k] = e

Ordered(l) ==
    /\ \A a, b \in 1..Len(l) : a < b => Rank(l[a]) < Rank(l[b])
    /\ Has(l, "fault") => (Has(l, "workload_start") /\ Has(l, "settle"))
    /\ (Has(l, "recovery") \/ Has(l, "join")) => Has(l, "fault")

\* C19: in every run of a fault scenario the events occur in the order
\* workload start, settling delay, fault injection, recovery evaluation or
\* join, teardown: the fault is never injected before the workload was
\* started, the scenario ends with its teardown and no fault or workload
\* step follows it.
C19_EventOrder ==
    /\ Ordered(fw_log) /\ Ordered(dt_log)
    /\ fw_pc \in {"done", "exited"} => fw_log[Len(fw_log)] = "teardown"
    /\ dt_pc = "iter_done" => dt_log[Len(dt_log)] = "teardown"

\* C19 witness: main() ran through all five events
C19_Witness ==
    /\ fw_pc = "done"
    /\ fw_log = <<"workload_start", "settle", "fault", "recovery", "teardown">>

(***************************************************************************)
(* The batch drivers: error_edge_cases.main and tls_nvme_tcp_tests.main    *)
(***************************************************************************)

\* run(cmd, check, capture, dry): with dry the command is only printed;
\* otherwise subprocess.run is reached, and a non-zero exit status raises
\* CalledProcessError when check is set
BdRun(dryarg, check, fails) ==
    [executed |-> ~dryarg, raised |-> ~dryarg /\ check /\ fails]

\* one call of a helper: the command it runs, whether the helper hands the
\* dry-run flag on to run(), and the check argument
Step(c, honours, chk) == [cmd |-> c, honours_dry |-> honours, check |-> chk]

StepRes(st, d, F) == BdRun(st.honours_dry /\ d, st.check, st.cmd \in F)

\* statements in sequence: the first exception ends the sequence
FirstRaise(steps, d, F) ==
    LET R == {k \in DOMAIN steps : StepRes(steps[k], d, F).raised}
    IN IF R = {} THEN Len(steps) + 1
       ELSE CHOOSE k \in R : \A j \in R : k <= j

RunSteps(steps, d, F) ==
    LET n == FirstRaise(steps, d, F)
    IN [exec |-> {steps[k].cmd : k \in {j \in DOMAIN steps :
                      j <= n /\ StepRes(steps[j], d, F).executed}},
        raised |-> IF n > Len(steps) THEN "" ELSE steps[n].cmd]

Opt(flag, steps) == IF flag THEN steps ELSE <<>>

\* stop_tcpdump(): subprocess.run(["pkill", ...]) without run(), so without
\* the dry-run flag; check is off and every exception is swallowed
stop_tcpdump == [exec |-> {"pkill"}, raised |-> ""]

\* nvme_disconnect(nqn, dry): run(...) with check=True
nvme_disconnect(c) == <<Step(c, TRUE, TRUE)>>

\* find_namespace_device_for_nqn(nqn): nvme_list() calls run(["nvme","list"])
\* without dry; it raises when the command fails and the caller raises
\* RuntimeError when no device is listed for the NQN
find_namespace_device_for_nqn(c) == <<Step(c, FALSE, TRUE)>>

\* the result of a scenario function: commands executed, the step whose
\* exception leaves the function ("" when it returns), whether that step
\* is a teardown step, and the outcome it reports
ScenarioRes(ex, r, t, o) == [exec |-> ex, raised |-> r, td |-> t, outcome |-> o]

\* scenario_rekey_during_io / scenario_key_mismatch: start_tcpdump ahead of
\* the try statement, log_row PASS at the end of the try block, log_row FAIL
\* in the except clause, stop_tcpdump in the finally clause
EdgeScenario(body, d, F) ==
    LET pre == RunSteps(<<Step("tcpdump", TRUE, TRUE)>>, d, F)
        b == RunSteps(body, d, F)
    IN IF pre.raised # ""
       THEN ScenarioRes(pre.exec, pre.raised, FALSE, "raised")
       ELSE ScenarioRes(pre.exec \cup b.exec \cup stop_tcpdump.exec, "", FALSE,
                        IF b.raised = "" THEN "PASS" ELSE "FAIL")

scenario_rekey_during_io(d, F) ==
    EdgeScenario(<<Step("fio", TRUE, TRUE), Step("xfrm_delete", TRUE, TRUE),
                   Step("fio_post", TRUE, TRUE)>>, d, F)

\* xfrm_flush_all(dry): two run(...) calls with the default check=True
xfrm_flush_all == <<Step("state_flush", TRUE, TRUE), Step("policy_flush", TRUE, TRUE)>>

\* sa_resource_exhaustion_linux.flush_all(dry): the same two calls
flush_all == <<Step("state_flush", TRUE, TRUE), Step("policy_flush", TRUE, TRUE)>>

\* IPSecTesting.ip_xfrm_flush(): two run_cmd(..., check=False) calls;
\* run_cmd has no dry-run argument
ip_xfrm_flush_cmds ==
    <<Step("state_flush", FALSE, FALSE), Step("policy_flush", FALSE, FALSE)>>

scenario_key_mismatch(d, F) ==
    EdgeScenario(xfrm_flush_all \o <<Step("fio", TRUE, TRUE)>>, d, F)

\* scenario_tls_connect_and_io(args): try / finally without except; in the
\* finally clause the exception of nvme_disconnect is swallowed
scenario_tls_connect_and_io(a, F) ==
    LET b == RunSteps(Opt(a.capture, <<Step("tcpdump", TRUE, TRUE)>>)
                      \o <<Step("connect", TRUE, TRUE)>>
                      \o Opt(a.openssl_check, <<Step("openssl", TRUE, TRUE)>>)
                      \o find_namespace_device_for_nqn("nvme_list")
                      \o Opt(a.fio, <<Step("fio", TRUE, TRUE)>>), a.dry_run, F)
        t == RunSteps(nvme_disconnect("disconnect"), a.dry_run, F)
    IN ScenarioRes(b.exec \cup t.exec
                     \cup (IF a.capture THEN stop_tcpdump.exec ELSE {}),
                   b.raised, FALSE,
                   IF b.raised = "" THEN "returned" ELSE "raised")

\* one connect / I/O / disconnect round of scenario_session_resumption:
\* the connect is ahead of the try statement, nvme_disconnect is the whole
\* finally clause and its exception is not caught
ResumptionRound(sfx, a, F) ==
    LET c == RunSteps(<<Step("connect" \o sfx, TRUE, TRUE)>>, a.dry_run, F)
        b == RunSteps(find_namespace_device_for_nqn("nvme_list" \o sfx)
                      \o <<Step("fio" \o sfx, TRUE, TRUE)>>, a.dry_run, F)
        t == RunSteps(nvme_disconnect("disconnect" \o sfx), a.dry_run, F)
    IN IF c.raised # "" THEN ScenarioRes(c.exec, c.raised, FALSE, "raised")
       ELSE IF t.raised # ""
            THEN ScenarioRes(c.exec \cup b.exec \cup t.exec, t.raised, TRUE, "raised")
       ELSE ScenarioRes(c.exec \cup b.exec \cup t.exec, b.raised, FALSE,
                        IF b.raised = "" THEN "returned" ELSE "raised")

scenario_session_resumption(a, F) ==
    LET r1 == ResumptionRound("", a, F)
        r2 == ResumptionRound("_2", a, F)
    IN IF r1.raised # "" THEN r1
       ELSE ScenarioRes(r1.exec \cup r2.exec, r2.raised, r2.td, r2.outcome)

\* scenario_bad_cert(args): CalledProcessError of the connect is the
\* expected result and is caught; nvme_disconnect's exception is swallowed
scenario_bad_cert(a, F) ==
    LET b == RunSteps(<<Step("connect_bad", TRUE, TRUE)>>, a.dry_run, F)
        t == RunSteps(nvme_disconnect("disconnect"), a.dry_run, F)
    IN ScenarioRes(b.exec \cup t.exec, "", FALSE, "returned")

\* the commands whose exit status the environment decides
EdgeCmds == {"tcpdump", "fio", "xfrm_delete", "fio_post", "state_flush",
             "policy_flush", "tc_del"}

TlsCmds == {"tcpdump", "connect", "openssl", "nvme_list", "fio", "disconnect",
            "connect_2", "nvme_list_2", "fio_2", "disconnect_2", "connect_bad"}

\* at most two commands of a scenario exit non-zero
FaultSets(C) == {F \in SUBSET C : Cardinality(F) <= MaxFaults}

EdgeArgs ==
    {[script |-> "edge", dry_run |-> d, skip_rekey |-> r, skip_authfail |-> k,
      skip_netem |-> n] : d \in BOOLEAN, r \in BOOLEAN, k \in BOOLEAN, n \in BOOLEAN}

TlsArgs ==
    {[script |-> "tls", dry_run |-> d, capture |-> c, openssl_check |-> o,
      fio |-> f, resumption |-> r, bad_cert |-> b, bad_tls_ca |-> ca,
      impair |-> im] :
        d \in BOOLEAN, c \in BOOLEAN, o \in BOOLEAN, f \in BOOLEAN,
        r \in BOOLEAN, b \in BOOLEAN, ca \in BOOLEAN, im \in BOOLEAN}

BdInit ==
    /\ bd_args \in EdgeArgs \cup TlsArgs
    /\ bd_pc = IF bd_args.script = "edge" THEN "rekey" ELSE "smoke"
    /\ bd_ran = {} /\ bd_rep = {} /\ bd_exec = {} /\ bd_exc = "" /\ bd_td = {}

\* a scenario function was called and has ended with result r
BdRecord(name, r, next, onraise) ==
    /\ bd_ran' = bd_ran \cup {name}
    /\ bd_rep' = bd_rep \cup {<<name, r.outcome>>}
    /\ bd_exec' = bd_exec \cup r.exec
    /\ bd_td' = IF r.td THEN bd_td \cup {name} ELSE bd_td
    /\ bd_exc' = r.raised
    /\ bd_pc' = IF r.raised = "" THEN next ELSE onraise

BdSkip(next) ==
    /\ bd_pc' = next
    /\ UNCHANGED <<bd_ran, bd_rep, bd_exec, bd_exc, bd_td>>

\* error_edge_cases.main: if not args.skip_rekey: scenario_rekey_during_io(...)
BdEdgeRekey ==
    /\ bd_pc = "rekey"
    /\ IF bd_args.skip_rekey THEN BdSkip("authfail")
       ELSE \E F \in FaultSets(EdgeCmds) :
              BdRecord("rekey", scenario_rekey_during_io(bd_args.dry_run, F),
                       "authfail", "edge_finally")
    /\ UNCHANGED <<bd_args, notBd>>

\* if not args.skip_authfail: scenario_key_mismatch(...)
BdEdgeAuthfail ==
    /\ bd_pc = "authfail"
    /\ IF bd_args.skip_authfail THEN BdSkip("netem")
       ELSE \E F \in FaultSets(EdgeCmds) :
              BdRecord("authfail", scenario_key_mismatch(bd_args.dry_run, F),
                       "netem", "edge_finally")
    /\ UNCHANGED <<bd_args, notBd>>

\* if not args.skip_netem: scenario_packet_loss_reorder(...) is entered
BdEdgeNetemCall ==
    /\ bd_pc = "netem"
    /\ IF bd_args.skip_netem
       THEN BdSkip("edge_finally") /\ UNCHANGED edgeVars
       ELSE /\ bd_pc' = "in_netem"
            /\ bd_ran' = bd_ran \cup {"netem"}
            /\ UNCHANGED <<bd_rep, bd_exec, bd_exc, bd_td>>
            /\ edge_pc' = "tc_del" /\ edge_dry' = bd_args.dry_run
            /\ edge_result' = "" /\ edge_exc' = ""
            /\ UNCHANGED <<tc_root, tc_netem, tc_filters>>
    /\ UNCHANGED <<bd_args, exVars, fwVars, dtVars, mrVars, tcVars, tlsVars, flVars, kyVars, ckVars, rkVars, pmVars, nvVars>>

\* scenario_packet_loss_reorder has returned
BdEdgeNetemReturn ==
    /\ bd_pc = "in_netem" /\ edge_pc = "returned"
    /\ bd_rep' = bd_rep \cup {<<"netem", edge_result>>}
    /\ bd_pc' = "edge_finally"
    /\ UNCHANGED <<bd_args, bd_ran, bd_exec, bd_exc, bd_td, notBd>>

\* main's finally clause: tc_clear (check=False, its exception swallowed)
\* and stop_tcpdump(); an exception of the try block then leaves main
BdEdgeFinally ==
    /\ bd_pc = "edge_finally"
    /\ bd_exec' = bd_exec \cup stop_tcpdump.exec
                    \cup RunSteps(<<Step("tc_del", TRUE, FALSE)>>, bd_args.dry_run, {}).exec
    /\ bd_pc' = IF bd_exc = "" THEN "done" ELSE "aborted"
    /\ UNCHANGED <<bd_args, bd_ran, bd_rep, bd_exc, bd_td, notBd>>

\* tls_nvme_tcp_tests.main: scenario_tls_connect_and_io(args), no try
BdTlsSmoke ==
    /\ bd_pc = "smoke"
    /\ \E F \in FaultSets(TlsCmds) :
         BdRecord("smoke", scenario_tls_connect_and_io(bd_args, F),
                  "resumption", "aborted")
    /\ UNCHANGED <<bd_args, notBd>>

\* if args.resumption: scenario_session_resumption(args)
BdTlsResumption ==
    /\ bd_pc = "resumption"
    /\ IF ~bd_args.resumption THEN BdSkip("bad_cert")
       ELSE \E F \in FaultSets(TlsCmds) :
              BdRecord("resumption", scenario_session_resumption(bd_args, F),
                       "bad_cert", "aborted")
    /\ UNCHANGED <<bd_args, notBd>>

\* if args.bad_cert: sys.exit without --bad-tls-ca, else scenario_bad_cert
BdTlsBadCert ==
    /\ bd_pc = "bad_cert"
    /\ IF ~bd_args.bad_cert THEN BdSkip("impair")
       ELSE IF ~bd_args.bad_tls_ca
            THEN /\ bd_pc' = "aborted" /\ bd_exc' = "sys.exit"
                 /\ UNCHANGED <<bd_ran, bd_rep, bd_exec, bd_td>>
       ELSE \E F \in FaultSets(TlsCmds) :
              BdRecord("bad_cert", scenario_bad_cert(bd_args, F), "impair", "aborted")
    /\ UNCHANGED <<bd_args, notBd>>

\* if args.impair: scenario_impairment(args) is entered
BdTlsImpairCall ==
    /\ bd_pc = "impair"
    /\ IF ~bd_args.impair
       THEN BdSkip("done") /\ UNCHANGED tlsVars
       ELSE /\ bd_pc' = "in_impair"
            /\ bd_ran' = bd_ran \cup {"impair"}
            /\ UNCHANGED <<bd_rep, bd_exec, bd_exc, bd_td>>
            /\ tls_pc' = "start"
            /\ tls_args' = [impair |-> bd_args.impair, fio |-> bd_args.fio,
                            dry_run |-> bd_args.dry_run]
            /\ tls_exc' = "" /\ tls_applied' = FALSE /\ tls_clears' = 0
            /\ UNCHANGED tls_if
    /\ UNCHANGED <<bd_args, exVars, fwVars, edgeVars, dtVars, mrVars, tcVars, flVars, kyVars, ckVars, rkVars, pmVars, nvVars>>

\* scenario_impairment has returned, or its exception leaves main
BdTlsImpairReturn ==
    /\ bd_pc = "in_impair" /\ tls_pc \in {"returned", "raised"}
    /\ bd_rep' = bd_rep \cup {<<"impair", tls_pc>>}
    /\ bd_exc' = tls_exc
    /\ bd_pc' = IF tls_pc = "returned" THEN "done" ELSE "aborted"
    /\ UNCHANGED <<bd_args, bd_ran, bd_exec, bd_td, notBd>>

BdNext ==
    \/ BdEdgeRekey \/ BdEdgeAuthfail \/ BdEdgeNetemCall \/ BdEdgeNetemReturn
    \/ BdEdgeFinally
    \/ BdTlsSmoke \/ BdTlsResumption \/ BdTlsBadCert
    \/ BdTlsImpairCall \/ BdTlsImpairReturn

BatchStart ==
    BdInit /\ ExhaustIdle /\ FwIdle /\ EdgeIdle /\ DtIdle /\ MrIdle /\ TcIdle /\ TlsIdle /\ FlIdle /\ KyIdle /\ CkIdle /\ RkIdle /\ PmIdle /\ NvIdle

\* main() enters scenario_impairment with args.impair set only
BdScenarioNext ==
    EdgeNext \/ TlsApply \/ TlsConnect \/ TlsFind \/ TlsFio \/ TlsFinally

SpecBatch == BatchStart /\ [][BdNext \/ BdScenarioNext]_vars

\* the scenarios the command line asks for
BdEnabled ==
    IF bd_args.script = "edge"
    THEN {sc \in {"rekey", "authfail", "netem"} :
            \/ sc = "rekey" /\ ~bd_args.skip_rekey
            \/ sc = "authfail" /\ ~bd_args.skip_authfail
            \/ sc = "netem" /\ ~bd_args.skip_netem}
    ELSE {sc \in {"smoke", "resumption", "bad_cert", "impair"} :
            \/ sc = "smoke"
            \/ sc = "resumption" /\ bd_args.resumption
            \/ sc = "bad_cert" /\ bd_args.bad_cert
            \/ sc = "impair" /\ bd_args.impair}

\* C21: in the batch drivers a scenario that fails because an external
\* command fails, at any of its steps, does not keep the later scenarios
\* from running: when main() ends for another reason than a usage error,
\* every scenario asked for was entered and has reported its own outcome.
C21_LaterScenariosRun ==
    (bd_pc \in {"done", "aborted"} /\ bd_exc # "sys.exit") =>
        \A sc \in BdEnabled : sc \in bd_ran /\ \E o \in bd_rep : o[1] = sc

\* C22: no failure of a teardown step (flush, impairment clear, disconnect,
\* capture stop) propagates out of its scenario: no scenario of a batch is
\* left by the exception of a step of its finally clause.
C22_TeardownContained ==
    \A sc \in bd_ran : sc \notin bd_td

\* C24: in dry-run mode no external command is executed at any step of a
\* scenario or of its teardown.
C24_DryRunExecutesNothing ==
    bd_args.script \in {"edge", "tls"} /\ bd_args.dry_run => bd_exec = {}

(***************************************************************************)
(* The flush-all operations: IPSecTesting.ip_xfrm_flush,                   *)
(* sa_resource_exhaustion_linux.flush_all, error_edge_cases.xfrm_flush_all *)
(***************************************************************************)

FlushSteps(script) ==
    CASE script = "ipsec" -> ip_xfrm_flush_cmds
      [] script = "exhaust" -> flush_all
      [] script = "edge" -> xfrm_flush_all

FlInit ==
    /\ fl_script \in {"ipsec", "exhaust", "edge"}
    /\ fl_dry \in BOOLEAN
    /\ fl_script = "ipsec" => ~fl_dry
    /\ fl_sas \in 0..MaxSas /\ fl_pols \in 0..MaxSas
    /\ fl_res = [exec |-> {}, raised |-> ""] /\ fl_n = 0

\* one call of the flush operation; a command that is executed and exits
\* with status 0 has emptied its table
FlCall ==
    /\ fl_n < MaxOps
    /\ \E F \in SUBSET {"state_flush", "policy_flush"} :
         LET r == RunSteps(FlushSteps(fl_script), fl_dry, F)
         IN /\ fl_res' = r
            /\ fl_sas' = IF "state_flush" \in r.exec \ F THEN 0 ELSE fl_sas
            /\ fl_pols' = IF "policy_flush" \in r.exec \ F THEN 0 ELSE fl_pols
    /\ fl_n' = fl_n + 1
    /\ UNCHANGED <<fl_script, fl_dry, notFl>>

\* between two calls the scripts and the system add entries
FlEnvAdd ==
    /\ fl_n < MaxOps
    /\ \/ fl_sas < MaxSas /\ fl_sas' = fl_sas + 1 /\ UNCHANGED fl_pols
       \/ fl_pols < MaxSas /\ fl_pols' = fl_pols + 1 /\ UNCHANGED fl_sas
    /\ UNCHANGED <<fl_script, fl_dry, fl_res, fl_n, notFl>>

FlNext == FlCall \/ FlEnvAdd

FlushStart ==
    FlInit /\ ExhaustIdle /\ FwIdle /\ EdgeIdle /\ DtIdle /\ MrIdle /\ TcIdle /\ TlsIdle /\ BdIdle /\ KyIdle /\ CkIdle /\ RkIdle /\ PmIdle /\ NvIdle

SpecFlush == FlushStart /\ [][FlNext]_vars

\* C23: every flush-all operation is best-effort: it attempts both the
\* state flush and the policy flush, also when the first fails, and it
\* never raises.
C23_FlushBestEffort ==
    (fl_n > 0 /\ ~fl_dry) =>
        /\ fl_res.raised = ""
        /\ fl_res.exec = {"state_flush", "policy_flush"}

(***************************************************************************)
(* Claims about the associations and identifiers of do_tests               *)
(***************************************************************************)

\* the rekey step of the ip xfrm path has just run and the state add of the
\* successor association took effect
RekeyedXfrm ==
    /\ dt_pc = "join" /\ swan_tool = "None" /\ join_waited = 0
    /\ \E sa \in sas : sa.spi = new_spi /\ sa.by = "xfrm"

\* C25: after a rekey of the ip xfrm path that succeeded, the new
\* association carries the reqid of the one it replaced, and exactly one
\* outbound and one inbound policy exist whose reqid is that of the live
\* association.
C25_RekeyKeepsReqid ==
    RekeyedXfrm =>
        \A sa \in sas : (sa.spi = new_spi /\ sa.by = "xfrm") =>
            /\ sa.reqid = spi % ReqidModulus
            /\ \A d \in {"out", "in"} :
                 Cardinality({po \in policies :
                                po.dir = d /\ po.reqid = sa.reqid}) = 1

C27_FlushBeforeXfrmBringup ==
    dt_pc = "bringup_xfrm" => dt_flushed

\* the bring-up of the ip xfrm path has just succeeded
XfrmUp == dt_pc = "verify" /\ swan_tool = "None"

\* C28: after a successful bring-up on the ip xfrm path the live
\* associations are exactly one outbound and one inbound association with
\* the same reqid, there is one policy per direction, and no policy lacks
\* a matching association of its direction.
C28_PairedAssociations ==
    XfrmUp =>
        /\ \A d \in {"out", "in"} :
             /\ Cardinality({sa \in sas : sa.dir = d}) = 1
             /\ Cardinality({po \in policies : po.dir = d}) = 1
        /\ \A x \in sas, y \in sas : x.reqid = y.reqid
        /\ \A po \in policies :
             \E sa \in sas : sa.dir = po.dir /\ sa.reqid = po.reqid

\* the identifiers of the (mode, cipher) combination: the bring-up SPI and
\* its rekey successor
ScenarioSpis(m, k) == {SpiFor(m, k), SpiFor(m, k) + 1}

\* C29: the identifiers used by do_tests are collision-free across
\* scenarios: the bring-up SPI and the rekey successor of the scenario under
\* way belong to no other (mode, cipher) combination.
C29_SpisDisjoint ==
    RekeyedXfrm =>
        \A m \in {"tunnel", "transport"}, k \in 0..(NumCiphers - 1) :
            <<m, k>> # <<mode, idx>> => {spi, new_spi} \cap ScenarioSpis(m, k) = {}

(***************************************************************************)
(* sa_resource_exhaustion_linux.py: the key material try_add_pair gives    *)
(* the associations of a run.  A hex key is [head, tail]: tail is the      *)
(* value of its last four hex digits, head stands for the digits before.   *)
(***************************************************************************)

\* bump & 0xffff
SuffixModulus == 65536

\* vary(hexkey, bump): s[:-4] + f"{(bump & 0xffff):04x}"
vary(hexkey, bump) == [head |-> hexkey.head, tail |-> bump % SuffixModulus]

\* key_in = ",".join([ak, ek]), the same string as key_out
CbcInKey(ak, ek) == [auth |-> ak, enc |-> ek]

\* key_out and key_in of pair idx
PairKeys(a, n) ==
    IF ~a.vary_key THEN [out |-> a.key_template, in |-> a.key_template]
    ELSE IF a.cipher = "gcm"
         THEN [out |-> vary(a.key_template, 2 * n),
               in |-> vary(a.key_template, 2 * n + 1)]
    ELSE LET ak == vary(a.key_template.auth, 2 * n)
             ek == vary(a.key_template.enc, 2 * n + 1)
         IN [out |-> [auth |-> ak, enc |-> ek], in |-> CbcInKey(ak, ek)]

\* the last four hex digits of the templates explored
KeyTails == {0, 1, 65535}

HexKeys(h) == {[head |-> h, tail |-> t] : t \in KeyTails}

KyArgs ==
    {[cipher |-> "gcm", vary_key |-> v, key_template |-> k] :
        v \in BOOLEAN, k \in HexKeys("key")}
    \cup {[cipher |-> "cbc", vary_key |-> v, key_template |-> [auth |-> ka, enc |-> ke]] :
            v \in BOOLEAN, ka \in HexKeys("authkey"), ke \in HexKeys("enckey")}

\* the pair indices of one run of exhaust() that are followed, in the order
\* the for loop reaches them
KyIdxs == <<0, 1, 2, 32767, 32768, 32769>>

KyInit ==
    /\ ky_args \in KyArgs
    /\ ky_pos = 0
    /\ ky_sas = {}

\* try_add_pair(idx, args) for the next followed index: two add_state calls
KyAddPair ==
    /\ ky_pos < Len(KyIdxs)
    /\ LET n == KyIdxs[ky_pos + 1]
           k == PairKeys(ky_args, n)
       IN ky_sas' = ky_sas \cup {[idx |-> n, dir |-> "out", key |-> k.out],
                                 [idx |-> n, dir |-> "in", key |-> k.in]}
    /\ ky_pos' = ky_pos + 1
    /\ UNCHANGED <<ky_args, notKy>>

KyNext == KyAddPair

KeyStart ==
    KyInit /\ ExhaustIdle /\ FwIdle /\ EdgeIdle /\ DtIdle /\ MrIdle /\ TcIdle /\ TlsIdle /\ BdIdle /\ FlIdle /\ CkIdle /\ RkIdle /\ PmIdle /\ NvIdle

SpecKeys == KeyStart /\ [][KyNext]_vars

\* C30: with --vary-key no two distinct associations created by one run
\* share the same key material, for both ciphers, for the inbound and the
\* outbound association of a pair and for every pair index.
C30_KeysDistinct ==
    ky_args.cipher \in {"gcm", "cbc"} /\ ky_args.vary_key =>
        \A x \in ky_sas, y \in ky_sas : x # y => x.key # y.key

(***************************************************************************)
(* Further claims about monitor_recovery and firmware_upgrade_session.main *)
(***************************************************************************)

\* C40: monitor_recovery evaluates the predicate at least once: with a
\* predicate that is true from its first call it returns succeeded = True,
\* for every timeout >= 0 and every interval.
C40_EvaluatesAtLeastOnce ==
    (mr_pc = "returned" /\ mr_after = 0) => (mr_evals >= 1 /\ mr_ret.ok)

\* C36: the recovery predicate of main() is true only when the workload is
\* still running and an ESP association exists: a poll of monitor_recovery
\* that ends the wait with success saw both.
C36_RecoveredNeedsBoth ==
    [][(fw_pc = "mon_check" /\ fw_pc' = "post_snapshot" /\ ok')
         => (/\ HasProtoEsp(xfrm_state_snapshot(dry_run, xfrm_table))
             /\ fio_is_running(proc))]_vars

\* C34: the pre-fault snapshot is captured immediately before the fault is
\* injected: the step of main() that follows the snapshot is the firmware
\* trigger (issued at "settle"), with no workload start in between.
C34_SnapshotJustBeforeFault ==
    [][(fw_pc = "pre_snapshot" /\ fw_pc' # "pre_snapshot")
         => (fw_pc' = "settle" /\ proc' = proc)]_vars

\* C33: starting the packet capture is fire-and-forget: start_tcpdump returns
\* without waiting for the capture process, so main() is never held by it
\* and reaches its workload with the capture still running.
C33_CaptureFireAndForget ==
    /\ fw_pc # "tcpdump_wait"
    /\ (~dry_run /\ fw_pc \in {"pre_snapshot", "fio_start", "settle"})
          => tcpdump = "running"

(***************************************************************************)
(* Further claims about exhaust()                                          *)
(***************************************************************************)

\* C39: exhaust creates pairs atomically: wherever it returns, it has added
\* 2 x created associations and, with --with-policy, 2 x created policies
\* (none otherwise); a pair that failed part-way leaves nothing behind.
C39_PairsAtomic ==
    (ex_pc = "returned" /\ ~args.dry_run) =>
        /\ xfrm_states = 2 * created
        /\ xfrm_policies = IF args.with_policy THEN 2 * created ELSE 0

(***************************************************************************)
(* IPSecTesting.py, do_tests: the checksums of the write-heavy file and of *)
(* its read-heavy copy (lines 368-391).  A file content is a small number; *)
(* 0 stands for a file that does not exist.                                *)
(***************************************************************************)
MaxContent == 3

\* length of hashlib.sha256().hexdigest()
DigestLen == 64

NoSum == [len |-> 0, of |-> 0]

\* compute_checksum(path): the SHA-256 hex digest of the bytes read from the
\* file; it is a function of the content alone and distinct contents of
\* the model have distinct digests
compute_checksum(content) == [len |-> DigestLen, of |-> content]

\* the try body after fio_thread.join(timeout=FIO_RUNTIME + 30): the
\* thread may still be alive ("did not finish in time; continuing")
CkInit ==
    /\ ck_pc = "validate"
    /\ test_file \in 0..MaxContent
    /\ read_file \in 0..MaxContent
    /\ ck_writer \in BOOLEAN
    /\ checksum = NoSum /\ read_checksum = NoSum
    /\ ck_raised = ""

\* if os.path.exists(test_path): checksum = compute_checksum(test_path);
\* print(...)  else: raise RuntimeError
CkValidate ==
    /\ ck_pc = "validate"
    /\ IF test_file # 0
         THEN /\ checksum' = compute_checksum(test_file)
              /\ ck_pc' = "cp"
              /\ UNCHANGED ck_raised
         ELSE /\ ck_pc' = "except"
              /\ ck_raised' = "validate"
              /\ UNCHANGED checksum
    /\ UNCHANGED <<test_file, read_file, read_checksum, ck_writer, notCk>>

\* run_cmd(["cp", test_path, read_file_path]) with check=True
CkCopy ==
    /\ ck_pc = "cp"
    /\ \/ /\ read_file' = test_file
          /\ ck_pc' = "read_fio"
          /\ UNCHANGED ck_raised
       \/ /\ ck_pc' = "except"
          /\ ck_raised' = "cp"
          /\ UNCHANGED read_file
    /\ UNCHANGED <<test_file, checksum, read_checksum, ck_writer, notCk>>

\* run_fio(mount_point, short_read_filename, ..., rw="randread", verify=1):
\* the copy exists, so no file is prepared; fio reads and returns or fails
CkReadFio ==
    /\ ck_pc = "read_fio"
    /\ \/ ck_pc' = "read_sum" /\ UNCHANGED ck_raised
       \/ ck_pc' = "except" /\ ck_raised' = "read_fio"
    /\ UNCHANGED <<test_file, read_file, checksum, read_checksum, ck_writer, notCk>>

\* read_checksum = compute_checksum(read_file_path); print(...); the next
\* statement is the impairment test
CkReadSum ==
    /\ ck_pc = "read_sum"
    /\ read_checksum' = compute_checksum(read_file)
    /\ ck_pc' = "done"
    /\ UNCHANGED <<test_file, read_file, checksum, ck_writer, ck_raised, notCk>>

\* the write-heavy fio thread that outlived the join keeps writing test_path
CkWriterWrites ==
    /\ ck_writer
    /\ ck_pc \notin {"done", "except"}
    /\ \E c \in 1..MaxContent :
         c # test_file /\ test_file' = c
    /\ UNCHANGED <<ck_pc, read_file, checksum, read_checksum, ck_writer,
                   ck_raised, notCk>>

CkWriterExits ==
    /\ ck_writer
    /\ ck_writer' = FALSE
    /\ UNCHANGED <<ck_pc, test_file, read_file, checksum, read_checksum,
                   ck_raised, notCk>>

CkNext ==
    \/ CkValidate
    \/ CkCopy
    \/ CkReadFio
    \/ CkReadSum
    \/ CkWriterWrites
    \/ CkWriterExits

ChecksumStart ==
    CkInit /\ ExhaustIdle /\ FwIdle /\ EdgeIdle /\ DtIdle /\ MrIdle /\ TcIdle /\ TlsIdle /\ BdIdle /\ FlIdle /\ KyIdle /\ RkIdle /\ PmIdle /\ NvIdle

SpecChecksum == ChecksumStart /\ [][CkNext]_vars

\* C31: once the workload and both checksum computations have completed,
\* both values are 64-digit digests and the run went on only with equal
\* values: a difference between the checksum taken after the workload and
\* the one computed independently has been detected.
C31_ChecksumRoundTrip ==
    ck_pc = "done" =>
        /\ checksum.len = DigestLen
        /\ read_checksum.len = DigestLen
        /\ checksum = read_checksum

(***************************************************************************)
(* error_edge_cases.py, scenario_rekey_during_io, one action per statement *)
(***************************************************************************)
RkInit ==
    /\ rk_pc = "tcpdump"
    /\ rk_dry \in BOOLEAN
    /\ rk_spi \in 1..MaxSpi
    /\ rk_sas \in SUBSET (1..MaxSpi)
    /\ rk_fio = "not_started" /\ rk_post = "not_started"
    /\ rk_at_delete = "" /\ rk_row = ""

\* start_tcpdump(iface, pcap, dry), before the try: run() prints in dry
\* mode, else subprocess.run returns when tcpdump has exited, or raises
RkStartTcpdump ==
    /\ rk_pc = "tcpdump"
    /\ \/ rk_pc' = "fio_call"
       \/ ~rk_dry /\ rk_pc' = "raised"
    /\ UNCHANGED <<rk_dry, rk_spi, rk_sas, rk_fio, rk_post, rk_at_delete,
                   rk_row, notRk>>

\* fio_randrw(mount_point, "rekey.bin", runtime=20, dry=dry) is called:
\* run(cmd, dry=dry) prints in dry mode, else subprocess.run starts fio
RkFioCall ==
    /\ rk_pc = "fio_call"
    /\ IF rk_dry
         THEN rk_pc' = "sleep_pre" /\ UNCHANGED rk_fio
         ELSE rk_pc' = "fio_wait" /\ rk_fio' = "running"
    /\ UNCHANGED <<rk_dry, rk_spi, rk_sas, rk_post, rk_at_delete, rk_row, notRk>>

\* subprocess.run(cmd, check=True, ...) returns when fio has exited
RkFioReturns ==
    /\ rk_pc = "fio_wait"
    /\ \/ rk_fio' = "done" /\ rk_pc' = "sleep_pre"
       \/ rk_fio' = "failed" /\ rk_pc' = "except"
    /\ UNCHANGED <<rk_dry, rk_spi, rk_sas, rk_post, rk_at_delete, rk_row, notRk>>

\* time.sleep(5)
RkSleepPre ==
    /\ rk_pc = "sleep_pre"
    /\ rk_pc' = "delete"
    /\ UNCHANGED <<rk_dry, rk_spi, rk_sas, rk_fio, rk_post, rk_at_delete,
                   rk_row, notRk>>

\* xfrm_delete_spi(spi_hex, dry=dry): ip xfrm state delete spi <spi>
RkDelete ==
    /\ rk_pc = "delete"
    /\ rk_at_delete' = rk_fio
    /\ \/ /\ rk_dry \/ rk_spi \in rk_sas
          /\ rk_sas' = IF rk_dry THEN rk_sas ELSE rk_sas \ {rk_spi}
          /\ rk_pc' = "sleep_post"
       \/ /\ ~rk_dry
          /\ rk_pc' = "except"
          /\ UNCHANGED rk_sas
    /\ UNCHANGED <<rk_dry, rk_spi, rk_fio, rk_post, rk_row, notRk>>

\* time.sleep(5); a keying daemon may re-establish the association
RkSleepPost ==
    /\ rk_pc = "sleep_post"
    /\ rk_pc' = "post_call"
    /\ \/ UNCHANGED rk_sas
       \/ ~rk_dry /\ rk_spi \notin rk_sas /\ rk_sas' = rk_sas \cup {rk_spi}
    /\ UNCHANGED <<rk_dry, rk_spi, rk_fio, rk_post, rk_at_delete, rk_row, notRk>>

\* fio_randrw(mount_point, "rekey_post.bin", runtime=15, dry=dry)
RkPostCall ==
    /\ rk_pc = "post_call"
    /\ IF rk_dry
         THEN rk_pc' = "log_pass" /\ UNCHANGED rk_post
         ELSE rk_pc' = "post_wait" /\ rk_post' = "running"
    /\ UNCHANGED <<rk_dry, rk_spi, rk_sas, rk_fio, rk_at_delete, rk_row, notRk>>

RkPostReturns ==
    /\ rk_pc = "post_wait"
    /\ \/ rk_post' = "done" /\ rk_pc' = "log_pass"
       \/ rk_post' = "failed" /\ rk_pc' = "except"
    /\ UNCHANGED <<rk_dry, rk_spi, rk_sas, rk_fio, rk_at_delete, rk_row, notRk>>

\* log_row(..., "PASS", "Deleted SPI and continued I/O")
RkLogPass ==
    /\ rk_pc = "log_pass"
    /\ rk_row' = "PASS"
    /\ rk_pc' = "finally"
    /\ UNCHANGED <<rk_dry, rk_spi, rk_sas, rk_fio, rk_post, rk_at_delete, notRk>>

\* except Exception as e: log_row(..., "FAIL", str(e))
RkExcept ==
    /\ rk_pc = "except"
    /\ rk_row' = "FAIL"
    /\ rk_pc' = "finally"
    /\ UNCHANGED <<rk_dry, rk_spi, rk_sas, rk_fio, rk_post, rk_at_delete, notRk>>

\* finally: stop_tcpdump()
RkFinally ==
    /\ rk_pc = "finally"
    /\ rk_pc' = "returned"
    /\ UNCHANGED <<rk_dry, rk_spi, rk_sas, rk_fio, rk_post, rk_at_delete,
                   rk_row, notRk>>

RkNext ==
    \/ RkStartTcpdump
    \/ RkFioCall
    \/ RkFioReturns
    \/ RkSleepPre
    \/ RkDelete
    \/ RkSleepPost
    \/ RkPostCall
    \/ RkPostReturns
    \/ RkLogPass
    \/ RkExcept
    \/ RkFinally

RekeyStart ==
    RkInit /\ ExhaustIdle /\ FwIdle /\ EdgeIdle /\ DtIdle /\ MrIdle /\ TcIdle /\ TlsIdle /\ BdIdle /\ FlIdle /\ KyIdle /\ CkIdle /\ PmIdle /\ NvIdle

SpecRekey == RekeyStart /\ [][RkNext]_vars

\* C32: at the moment xfrm_delete_spi is issued (commands being executed,
\* not only printed) the first workload has been started and has not yet
\* completed.
C32_DeleteDuringIo ==
    (rk_at_delete # "" /\ ~rk_dry) => rk_at_delete = "running"

(* Further claims about the scenarios of error_edge_cases.py *)
\* C35: when scenario_key_mismatch has run its workload (commands executed,
\* PASS row written), the associations were flushed and an association with
\* non-matching key material was added again before the workload.
C35_WrongKeyReAdded ==
    (/\ bd_args.script = "edge"
     /\ ~bd_args.dry_run
     /\ <<"authfail", "PASS">> \in bd_rep)
        => {"state_flush", "state_add"} \subseteq bd_exec

(***************************************************************************)
(* performance_resource_handling.py, run_with_metrics                      *)
(***************************************************************************)
MaxRuntime == 6
MaxScenario == 3

\* kwargs.get("runtime", 30)
RuntimeDefault == 30
NoRuntime == -100

\* max(5, ...)
MinWindow == 5

\* cpu_util_percent_during(0.5): two samples in one second
SamplesPerSecond == 2

\* stop_at - t0 = max(5, int(kwargs.get("runtime", 30))), in half seconds
SamplingWindow(rt) ==
    LET r == IF rt = NoRuntime THEN RuntimeDefault ELSE rt
    IN SamplesPerSecond * (IF r > MinWindow THEN r ELSE MinWindow)

PmInit ==
    /\ pm_pc = "pre"
    /\ pm_dry \in BOOLEAN
    /\ pm_runtime \in (-1..MaxRuntime) \cup {NoRuntime}
    /\ pm_now = 0 /\ pm_stop_at = 0
    /\ pm_last = <<-1, -1>>
    /\ pm_scn = [start |-> -1, end |-> -1]

\* pre snapshots (xfrm_stats_snapshot, ethtool_*: their exceptions are
\* swallowed), cpu_pct = 0.0, t0 = time.time(), if not dry: stop_at = ...
PmPre ==
    /\ pm_pc = "pre"
    /\ IF pm_dry
         THEN pm_pc' = "call" /\ UNCHANGED pm_stop_at
         ELSE pm_pc' = "loop" /\ pm_stop_at' = pm_now + SamplingWindow(pm_runtime)
    /\ UNCHANGED <<pm_dry, pm_runtime, pm_now, pm_last, pm_scn, notPm>>

\* while time.time() < stop_at: cpu_samples.append(cpu_util_percent_during(0.5))
\* one iteration: read /proc/stat, time.sleep(0.5), read /proc/stat; the
\* sleep may last longer than asked
PmSample ==
    /\ pm_pc = "loop"
    /\ pm_now < pm_stop_at
    /\ \E over \in 0..MaxOversleep :
         /\ pm_now' = pm_now + 1 + over
         /\ pm_last' = <<pm_now, pm_now + 1 + over>>
    /\ UNCHANGED <<pm_pc, pm_dry, pm_runtime, pm_stop_at, pm_scn, notPm>>

\* the loop test fails; cpu_pct = sum(cpu_samples)/len(cpu_samples)
PmAverage ==
    /\ pm_pc = "loop"
    /\ ~(pm_now < pm_stop_at)
    /\ pm_pc' = "call"
    /\ UNCHANGED <<pm_dry, pm_runtime, pm_now, pm_stop_at, pm_last, pm_scn, notPm>>

\* result = run_callable(*args, dry=dry, **kwargs) is entered
PmCall ==
    /\ pm_pc = "call"
    /\ pm_pc' = "in_scenario"
    /\ pm_scn' = [pm_scn EXCEPT !.start = pm_now]
    /\ UNCHANGED <<pm_dry, pm_runtime, pm_now, pm_stop_at, pm_last, notPm>>

\* the scenario returns after some time, or raises
PmScenarioEnds ==
    /\ pm_pc = "in_scenario"
    /\ \E d \in 1..MaxScenario :
         /\ pm_now' = pm_now + d
         /\ pm_scn' = [pm_scn EXCEPT !.end = pm_now + d]
    /\ pm_pc' \in {"post", "raised"}
    /\ UNCHANGED <<pm_dry, pm_runtime, pm_stop_at, pm_last, notPm>>

\* post snapshots; return result, cpu_pct, xdelta
PmPost ==
    /\ pm_pc = "post"
    /\ pm_pc' = "returned"
    /\ UNCHANGED <<pm_dry, pm_runtime, pm_now, pm_stop_at, pm_last, pm_scn, notPm>>

PmNext ==
    \/ PmPre
    \/ PmSample
    \/ PmAverage
    \/ PmCall
    \/ PmScenarioEnds
    \/ PmPost

MetricsStart ==
    PmInit /\ ExhaustIdle /\ FwIdle /\ EdgeIdle /\ DtIdle /\ MrIdle /\ TcIdle /\ TlsIdle /\ BdIdle /\ FlIdle /\ KyIdle /\ CkIdle /\ RkIdle /\ NvIdle

SpecMetrics == MetricsStart /\ [][PmNext]_vars

\* C37: when run_with_metrics returns from a run that executes commands, at
\* least one CPU sample interval lies between the start and the end of the
\* wrapped scenario.  The samples follow one another, so the latest one
\* then ends after the scenario has started, and no later than it ends.
C37_SampledDuringScenario ==
    (pm_pc = "returned" /\ ~pm_dry) =>
        (pm_scn.start < pm_last[2] /\ pm_last[2] <= pm_scn.end)

(***************************************************************************)
(* storage_nvme_tests.py, main and nvme_connect_tcp                        *)
(***************************************************************************)
\* nvme_connect_tcp(..., retries=10, wait_s=1.0)
Retries == 10

NvArgs ==
    [nvme_tcp : BOOLEAN, nqn_traddr : BOOLEAN, device_exists : BOOLEAN,
     mkfs : BOOLEAN]

NvInit ==
    /\ nv_pc = "try"
    /\ nv_args \in NvArgs
    /\ nv_tries = 0
    /\ nv_dev = FALSE /\ connected_nqn = FALSE /\ nv_mounted = FALSE
    /\ nv_connect_ok = FALSE /\ nv_disc = FALSE /\ nv_umount = FALSE
    /\ nv_exit = ""

\* sys.exit(msg) inside the try: SystemExit is not an Exception, the except
\* clause is passed over and the finally clause runs
NvSysExit ==
    /\ nv_pc' = "finally"
    /\ nv_exit' = "usage"

\* if args.nvme_tcp: ... else: dev = args.device; if not os.path.exists(dev)
NvTry ==
    /\ nv_pc = "try"
    /\ IF nv_args.nvme_tcp
         THEN /\ IF nv_args.nqn_traddr
                   THEN nv_pc' = "connect" /\ UNCHANGED nv_exit
                   ELSE NvSysExit
              /\ UNCHANGED nv_dev
         ELSE /\ nv_dev' = TRUE
              /\ IF nv_args.device_exists
                   THEN nv_pc' = "mkfs" /\ UNCHANGED nv_exit
                   ELSE NvSysExit
    /\ UNCHANGED <<nv_args, nv_tries, connected_nqn, nv_mounted, nv_connect_ok,
                   nv_disc, nv_umount, notNv>>

\* nvme_connect_tcp: run(cmd, capture=False) with check=True
NvConnect ==
    /\ nv_pc = "connect"
    /\ \/ nv_connect_ok' = TRUE /\ nv_pc' = "wait"
       \/ nv_pc' = "except" /\ UNCHANGED nv_connect_ok
    /\ UNCHANGED <<nv_args, nv_tries, nv_dev, connected_nqn, nv_mounted,
                   nv_disc, nv_umount, nv_exit, notNv>>

\* nvme_connect_tcp: one iteration of "for _ in range(retries)":
\* find_namespace_for_nqn returns the device, returns None, or nvme list
\* raises; on return of nvme_connect_tcp main sets dev and connected_nqn
NvPoll ==
    /\ nv_pc = "wait"
    /\ nv_tries < Retries
    /\ \/ /\ nv_dev' = TRUE
          /\ connected_nqn' = TRUE
          /\ nv_pc' = "mkfs"
          /\ UNCHANGED nv_tries
       \/ /\ nv_tries' = nv_tries + 1
          /\ UNCHANGED <<nv_pc, nv_dev, connected_nqn>>
       \/ /\ nv_pc' = "except"
          /\ UNCHANGED <<nv_tries, nv_dev, connected_nqn>>
    /\ UNCHANGED <<nv_args, nv_mounted, nv_connect_ok, nv_disc, nv_umount,
                   nv_exit, notNv>>

\* raise RuntimeError("NVMe/TCP device not found after connect")
NvNotFound ==
    /\ nv_pc = "wait"
    /\ nv_tries = Retries
    /\ nv_pc' = "except"
    /\ UNCHANGED <<nv_args, nv_tries, nv_dev, connected_nqn, nv_mounted,
                   nv_connect_ok, nv_disc, nv_umount, nv_exit, notNv>>

\* if args.mkfs: mkfs(dev, fstype=args.fstype)
NvMkfs ==
    /\ nv_pc = "mkfs"
    /\ \/ nv_pc' = "mount"
       \/ nv_args.mkfs /\ nv_pc' = "except"
    /\ UNCHANGED <<nv_args, nv_tries, nv_dev, connected_nqn, nv_mounted,
                   nv_connect_ok, nv_disc, nv_umount, nv_exit, notNv>>

\* mount_fs(dev, args.mount)
NvMount ==
    /\ nv_pc = "mount"
    /\ \/ nv_mounted' = TRUE /\ nv_pc' = "tests"
       \/ nv_pc' = "except" /\ UNCHANGED nv_mounted
    /\ UNCHANGED <<nv_args, nv_tries, nv_dev, connected_nqn, nv_connect_ok,
                   nv_disc, nv_umount, nv_exit, notNv>>

\* the scenarios: all return, or one raises
NvTests ==
    /\ nv_pc = "tests"
    /\ \/ nv_pc' = "finally" /\ nv_exit' = "0"
       \/ nv_pc' = "except" /\ UNCHANGED nv_exit
    /\ UNCHANGED <<nv_args, nv_tries, nv_dev, connected_nqn, nv_mounted,
                   nv_connect_ok, nv_disc, nv_umount, notNv>>

\* except Exception as e: err(str(e)); sys.exit(2)
NvExcept ==
    /\ nv_pc = "except"
    /\ nv_pc' = "finally"
    /\ nv_exit' = "2"
    /\ UNCHANGED <<nv_args, nv_tries, nv_dev, connected_nqn, nv_mounted,
                   nv_connect_ok, nv_disc, nv_umount, notNv>>

\* finally: umount_fs(args.mount); if connected_nqn: nvme_disconnect(...);
\* the failures of both are swallowed
NvFinally ==
    /\ nv_pc = "finally"
    /\ nv_umount' = TRUE
    /\ nv_mounted' \in {FALSE, nv_mounted}
    /\ nv_disc' = connected_nqn
    /\ nv_pc' = "exited"
    /\ UNCHANGED <<nv_args, nv_tries, nv_dev, connected_nqn, nv_connect_ok,
                   nv_exit, notNv>>

NvNext ==
    \/ NvTry
    \/ NvConnect
    \/ NvPoll
    \/ NvNotFound
    \/ NvMkfs
    \/ NvMount
    \/ NvTests
    \/ NvExcept
    \/ NvFinally

NvmeStart ==
    NvInit /\ ExhaustIdle /\ FwIdle /\ EdgeIdle /\ DtIdle /\ MrIdle /\ TcIdle /\ TlsIdle /\ BdIdle /\ FlIdle /\ KyIdle /\ CkIdle /\ RkIdle /\ PmIdle

SpecNvme == NvmeStart /\ [][NvNext]_vars

\* C38: when main has exited, umount was attempted, and nvme disconnect was
\* issued if the nvme connect command had been issued successfully.
C38_DisconnectOnEveryExit ==
    nv_pc = "exited" =>
        /\ nv_umount
        /\ nv_connect_ok => nv_disc

====
